---- MODULE Spec2Model ----
(***************************************************************************)
(* Model of the text core of the Hecto editor: AnnotatedString and its     *)
(* iterator (src/src/editor/annotatedstring), Line (src/src/editor/line)   *)
(* and Buffer (src/src/editor/uicomponents/view/buffer.rs).                *)
(*                                                                         *)
(* A Rust String is modelled as a sequence of chars; each char has its     *)
(* UTF-8 length, so byte indices, char boundaries and the panics of        *)
(* slicing off a char boundary are what they are in the program.           *)
(***************************************************************************)
EXTENDS Integers, Sequences, FiniteSets, TLC

VARIABLES
    as_string,        \* AnnotatedString.string
    as_annotations,   \* AnnotatedString.annotations
    as_last,          \* the last replace call: its arguments and the value before it
    it_state,         \* the AnnotatedStringIterator: "idle", "running", "done", "panicked"
    it_current_idx,   \* AnnotatedStringIterator.current_idx
    it_parts,         \* the AnnotatedStringParts yielded so far
    line,             \* a Line: [string, fragments]
    line_last,        \* the last calls on the Line: their arguments and the text before
    lines,            \* Buffer.lines
    file_info,        \* Buffer.file_info: the path, <<>> when there is none
    dirty,            \* Buffer.dirty
    disk,             \* the file system: the content of each path, or Absent
    buf_last,         \* the last calls on the Buffer: their arguments and results
    synced,           \* the line texts at the last successful load or save
    text_location,    \* View.text_location
    scroll_offset,    \* View.scroll_offset
    search_info,      \* View.search_info: <<>> or <<[prev_location, prev_scroll_offset, query]>>
    command_bar,      \* CommandBar.value, the text typed at a prompt
    prompt_type,      \* Editor.prompt_type: "None", "Save" or "Search"
    terminal_size,    \* Editor.terminal_size
    should_quit,      \* Editor.should_quit
    quit_times,       \* Editor.quit_times
    ed_last,          \* the last command processed, the mode and the status before it
    ed_run,           \* the Quit commands processed in a row in normal mode
    screen            \* what refresh_screen drew since the last command

as_vars == <<as_string, as_annotations, as_last>>
it_vars == <<it_state, it_current_idx, it_parts>>
line_vars == <<line, line_last>>
buf_vars == <<lines, file_info, dirty, disk, buf_last, synced>>
ed_vars == <<text_location, scroll_offset, search_info, command_bar, prompt_type,
             terminal_size, should_quit, quit_times, ed_last, ed_run, screen>>

(***************************************************************************)
(* Bounds of the model.                                                    *)
(***************************************************************************)
IterMaxLen == 3      \* chars of an iterated text
IterMaxAnn == 2      \* annotations of an iterated text
ReplMaxLen == 2      \* chars of a text under replace
ReplMaxAnn == 1      \* annotations of a text under replace
ReplMaxNew == 2      \* chars of a replacement string
LineMaxLen == 3      \* chars of a Line under edit
EditMaxChars == 3    \* chars of a Buffer under edit, all lines together
EditMaxLines == 3    \* lines of a Buffer under edit
FileMaxChars == 2    \* chars of a Buffer that is loaded and saved
FileMaxLines == 2    \* lines of a Buffer that is loaded and saved
SearchMaxChars == 5  \* chars of a searched Buffer, all lines together
SearchMaxLines == 2  \* lines of a searched Buffer
SearchMaxQuery == 3  \* chars of a query
WidthMaxLen == 3     \* chars of a Line whose width is taken
VisibleMaxLen == 3   \* chars of a Line whose visible part is taken
OnceMaxLen == 3      \* chars of a text under a single replace
OnceMaxNew == 2      \* chars of its replacement string
EdMaxChars == 1      \* chars of the text under the Editor
EdMaxLines == 2      \* lines of the text under the Editor
EdMaxValue == 1      \* chars typed at a prompt
EdWidth == 4         \* columns of the terminal
ViewMaxChars == 2    \* chars of the text under the View
ViewMaxLines == 1    \* lines of the text under the View
ViewMaxValue == 1    \* chars typed at a prompt over the View
ViewWidth == 1       \* columns of the terminal over the View
DrawMaxLines == 2    \* lines of the text that is drawn

(***************************************************************************)
(* Chars and strings.                                                      *)
(***************************************************************************)
Min(a, b) == IF a <= b THEN a ELSE b
Max(a, b) == IF a >= b THEN a ELSE b
SatSub(a, b) == IF a >= b THEN a - b ELSE 0

\* Option<T>: None is <<>>, Some(x) is <<x>>
None == <<>>
Some(x) == <<x>>

\* "a", "b": ASCII letters; "acute": U+0301 COMBINING ACUTE ACCENT;
\* "CR": U+000D; "LF": U+000A; "tab": U+0009; "space": U+0020;
\* "wide": U+4E2D, a CJK ideograph; "ispace": U+3000 IDEOGRAPHIC SPACE;
\* "ellipsis": U+22EF; "openbox": U+2423; "rect": U+25AF; "middot": U+00B7.
ByteLen(c) ==
    IF c \in {"acute", "middot"} THEN 2
    ELSE IF c \in {"wide", "ispace", "ellipsis", "openbox", "rect"} THEN 3
    ELSE 1

RECURSIVE StrLen(_)
StrLen(s) == IF s = <<>> THEN 0 ELSE ByteLen(Head(s)) + StrLen(Tail(s))

\* the byte offset of the k-th char boundary of s
ByteOffset(s, k) == StrLen(SubSeq(s, 1, k))

is_char_boundary(s, b) == \E k \in 0..Len(s) : ByteOffset(s, k) = b

CharsBefore(s, b) == CHOOSE k \in 0..Len(s) : ByteOffset(s, k) = b

\* &s[a..b] is defined on char boundaries with a <= b <= len and panics otherwise
SliceOk(s, a, b) == a <= b /\ is_char_boundary(s, a) /\ is_char_boundary(s, b)
Slice(s, a, b) == SubSeq(s, CharsBefore(s, a) + 1, CharsBefore(s, b))

StringsUpTo(alphabet, n) == UNION {[1..k -> alphabet] : k \in 0..n}

\* The byte indices a caller can pass for s: its char boundaries, and one index
\* past the end.
ByteIndices(s) == {b \in 0..(StrLen(s) + 1) : is_char_boundary(s, b) \/ b > StrLen(s)}

(***************************************************************************)
(* AnnotatedString                                                         *)
(***************************************************************************)
AnnotationType == {"Match", "SelectedMatch"}

Annotation(t, s, e) == [annotation_type |-> t, start_byte_idx |-> s, end_byte_idx |-> e]

NoCall == [op |-> "none"]

\* RebasePos that also moves the positions before the replaced range
RebasePosShiftsAll(pos, start, end, shortened, len_difference) ==
    IF shortened THEN SatSub(pos, len_difference) ELSE pos + len_difference

\* one position of an annotation set to the edited boundary, with no shift
RebasePosToBoundary(pos, start, end, shortened, len_difference) ==
    IF pos >= end
    THEN IF shortened THEN SatSub(pos, len_difference) ELSE pos + len_difference
    ELSE IF pos >= start
         THEN IF shortened THEN start ELSE end
         ELSE pos

\* RebasePos with "after the range" tested as pos > end
RebasePosStrict(pos, start, end, shortened, len_difference) ==
    IF pos > end
    THEN IF shortened THEN SatSub(pos, len_difference) ELSE pos + len_difference
    ELSE IF pos >= start
         THEN IF shortened
              THEN Max(start, SatSub(pos, len_difference))
              ELSE Min(end, pos + len_difference)
         ELSE pos

\* one position of an annotation after replace(start, end, new), end already clipped
RebasePos(pos, start, end, shortened, len_difference) ==
    IF pos >= end
    THEN IF shortened THEN SatSub(pos, len_difference) ELSE pos + len_difference
    ELSE IF pos >= start
         THEN IF shortened
              THEN Max(start, SatSub(pos, len_difference))
              ELSE Min(end, pos + len_difference)
         ELSE pos

RebaseAnnotation(a, start, end, shortened, len_difference) ==
    Annotation(a.annotation_type,
               RebasePos(a.start_byte_idx, start, end, shortened, len_difference),
               RebasePos(a.end_byte_idx, start, end, shortened, len_difference))

Retained(a, new_len) ==
    a.start_byte_idx < a.end_byte_idx /\ a.start_byte_idx < new_len

\* ReplaceRange that keeps the last char of the replaced range
ReplaceRangeKeepsLast(s, start, end, new_string) ==
    SubSeq(s, 1, CharsBefore(s, start)) \o new_string
        \o SubSeq(s, Max(CharsBefore(s, end), 1), Len(s))

ReplaceRange(s, start, end, new_string) ==
    SubSeq(s, 1, CharsBefore(s, start)) \o new_string
        \o SubSeq(s, CharsBefore(s, end) + 1, Len(s))

ClipEnd(s, end_byte_idx) == Min(end_byte_idx, StrLen(s))

\* AnnotatedString::replace: the value after the call
ReplacedString(s, start, end_byte_idx, new_string) ==
    LET end == ClipEnd(s, end_byte_idx)
    IN  IF start > end THEN s ELSE ReplaceRange(s, start, end, new_string)

\* AnnotatedString::replace: the annotations after iter_mut().for_each and
\* before retain
AdjustedAnnotations(s, anns, start, end_byte_idx, new_string) ==
    LET end == ClipEnd(s, end_byte_idx)
        replaced_range_len == SatSub(end, start)
        shortened == StrLen(new_string) < replaced_range_len
        len_difference == IF shortened THEN replaced_range_len - StrLen(new_string)
                          ELSE StrLen(new_string) - replaced_range_len
    IN  IF start > end \/ len_difference = 0
        THEN anns
        ELSE [i \in 1..Len(anns) |->
                RebaseAnnotation(anns[i], start, end, shortened, len_difference)]

ReplacedAnnotations(s, anns, start, end_byte_idx, new_string) ==
    LET end == ClipEnd(s, end_byte_idx)
        replaced_range_len == SatSub(end, start)
        shortened == StrLen(new_string) < replaced_range_len
        len_difference == IF shortened THEN replaced_range_len - StrLen(new_string)
                          ELSE StrLen(new_string) - replaced_range_len
        new_len == StrLen(ReplacedString(s, start, end_byte_idx, new_string))
        moved == [i \in 1..Len(anns) |->
                    RebaseAnnotation(anns[i], start, end, shortened, len_difference)]
        keep(a) == Retained(a, new_len)
    IN  IF start > end \/ len_difference = 0 THEN anns ELSE SelectSeq(moved, keep)

add_annotation(types, max_ann) ==
    /\ it_state = "idle"
    /\ Len(as_annotations) < max_ann
    /\ \E t \in types, s \in ByteIndices(as_string), e \in ByteIndices(as_string) :
          /\ s <= e
          /\ as_annotations' = Append(as_annotations, Annotation(t, s, e))
    /\ as_last' = NoCall
    /\ UNCHANGED <<as_string, it_vars, line_vars, buf_vars, ed_vars>>

replace_within(max_len, max_new) ==
    /\ it_state = "idle"
    /\ as_last = NoCall
    /\ \E start \in ByteIndices(as_string), end \in ByteIndices(as_string),
          new_string \in StringsUpTo({"a", "acute"}, max_new) :
          /\ start <= end
          /\ Len(ReplacedString(as_string, start, end, new_string)) <= max_len
          /\ as_string' = ReplacedString(as_string, start, end, new_string)
          /\ as_annotations' =
                ReplacedAnnotations(as_string, as_annotations, start, end, new_string)
          /\ as_last' = [op |-> "replace", string |-> as_string,
                         annotations |-> as_annotations, start |-> start,
                         end |-> end, new_string |-> new_string,
                         adjusted |-> AdjustedAnnotations(as_string, as_annotations,
                                                          start, end, new_string)]
    /\ UNCHANGED <<it_vars, line_vars, buf_vars, ed_vars>>

replace == replace_within(ReplMaxLen, ReplMaxNew)

\* the record of the last call is dropped; the AnnotatedString is untouched
forget_call ==
    /\ as_last # NoCall
    /\ as_last' = NoCall
    /\ UNCHANGED <<as_string, as_annotations, it_vars, line_vars, buf_vars, ed_vars>>

(***************************************************************************)
(* AnnotatedStringIterator                                                 *)
(***************************************************************************)
Part(s, t) == [string |-> s, annotation_type |-> t]

into_iter ==
    /\ it_state = "idle"
    /\ it_state' = "running"
    /\ it_current_idx' = 0
    /\ it_parts' = <<>>
    /\ UNCHANGED <<as_vars, line_vars, buf_vars, ed_vars>>

Covering(anns, idx) ==
    {i \in 1..Len(anns) : anns[i].start_byte_idx <= idx /\ anns[i].end_byte_idx > idx}

LastOf(S) == CHOOSE i \in S : \A j \in S : j <= i

\* AnnotatedEnd without the clip to the text length
AnnotatedEndUnclipped(a, s) == a.end_byte_idx

\* the end of the part that starts at idx under annotation a
AnnotatedEnd(a, s) == Min(a.end_byte_idx, StrLen(s))

\* the end of the part without annotation that starts at idx
PlainEnd(anns, s, idx) ==
    LET starts == {anns[i].start_byte_idx : i \in 1..Len(anns)}
        ahead == {b \in starts : b > idx /\ b < StrLen(s)}
    IN  IF ahead = {} THEN StrLen(s) ELSE CHOOSE b \in ahead : \A c \in ahead : b <= c

NextEnd(anns, s, idx) ==
    IF Covering(anns, idx) # {}
    THEN AnnotatedEnd(anns[LastOf(Covering(anns, idx))], s)
    ELSE PlainEnd(anns, s, idx)

NextType(anns, idx) ==
    IF Covering(anns, idx) # {}
    THEN anns[LastOf(Covering(anns, idx))].annotation_type
    ELSE "None"

next ==
    /\ it_state = "running"
    /\ UNCHANGED <<as_vars, line_vars, buf_vars, ed_vars>>
    /\ IF it_current_idx >= StrLen(as_string)
       THEN /\ it_state' = "done"
            /\ UNCHANGED <<it_current_idx, it_parts>>
       ELSE LET end_idx == NextEnd(as_annotations, as_string, it_current_idx)
            IN  /\ it_current_idx' = end_idx
                /\ IF SliceOk(as_string, it_current_idx, end_idx) /\ end_idx <= StrLen(as_string)
                   THEN /\ it_parts' = Append(it_parts,
                                Part(Slice(as_string, it_current_idx, end_idx),
                                     NextType(as_annotations, it_current_idx)))
                        /\ it_state' = "running"
                   ELSE /\ it_parts' = it_parts
                        /\ it_state' = "panicked"

\* the iterator is dropped and the AnnotatedString can be used again
drop_iter ==
    /\ it_state \in {"done", "panicked"}
    /\ it_state' = "idle"
    /\ it_current_idx' = 0
    /\ it_parts' = <<>>
    /\ UNCHANGED <<as_vars, line_vars, buf_vars, ed_vars>>

(***************************************************************************)
(* Line                                                                    *)
(***************************************************************************)
Extend == {"acute"}
Control == {"CR", "LF", "tab"}

\* no grapheme cluster boundary between c1 and c2 (UAX #29: GB3, GB4, GB5, GB9)
NoBreak(c1, c2) ==
    \/ c1 = "CR" /\ c2 = "LF"
    \/ c2 \in Extend /\ c1 \notin Control

\* str::graphemes(true): s cut into its grapheme clusters, acc the clusters so far
RECURSIVE Clusters(_, _)
Clusters(s, acc) ==
    IF s = <<>> THEN acc
    ELSE IF acc # <<>> /\ NoBreak(acc[Len(acc)][Len(acc[Len(acc)])], Head(s))
         THEN Clusters(Tail(s), [acc EXCEPT ![Len(acc)] = Append(@, Head(s))])
         ELSE Clusters(Tail(s), Append(acc, <<Head(s)>>))

graphemes(s) == Clusters(s, <<>>)

RECURSIVE Concat(_)
Concat(ss) == IF ss = <<>> THEN <<>> ELSE Head(ss) \o Concat(Tail(ss))

\* char::is_whitespace
WhiteSpace == {"space", "ispace", "tab", "CR", "LF"}

\* UnicodeWidthChar::width, 0 for a control character
CharWidth(c) ==
    IF c \in Extend \cup Control THEN 0
    ELSE IF c \in {"wide", "ispace"} THEN 2
    ELSE 1

\* UnicodeWidthStr::width
RECURSIVE StrWidth(_)
StrWidth(s) == IF s = <<>> THEN 0 ELSE CharWidth(Head(s)) + StrWidth(Tail(s))

\* Line::get_replacement_character
get_replacement_character(for_str) ==
    LET width == StrWidth(for_str)
    IN  IF for_str = <<"space">> THEN None
        ELSE IF for_str = <<"tab">> THEN Some("space")
        ELSE IF width > 0 /\ \A i \in 1..Len(for_str) : for_str[i] \in WhiteSpace
             THEN Some("openbox")
        ELSE IF width = 0
             THEN IF Len(for_str) = 1 /\ for_str[1] \in Control
                  THEN Some("rect")
                  ELSE Some("middot")
        ELSE None

\* GraphemeWidth as usize
GraphemeWidth(rendered_width) == IF rendered_width = "Full" THEN 2 ELSE 1

\* the rendered_width of a fragment, as if a replaced grapheme kept the class
\* of its own glyph width
rendered_width_of_glyph(grapheme) == IF StrWidth(grapheme) <= 1 THEN "Half" ELSE "Full"

\* the rendered_width of a fragment in Line::str_to_fragments
rendered_width(grapheme) ==
    IF get_replacement_character(grapheme) # None THEN "Half"
    ELSE IF StrWidth(grapheme) <= 1 THEN "Half" ELSE "Full"

TextFragment(g, b) ==
    [grapheme |-> g, rendered_width |-> rendered_width(g),
     replacement |-> get_replacement_character(g), start |-> b]

\* Line::str_to_fragments
str_to_fragments(line_str) ==
    LET gs == graphemes(line_str)
    IN  [i \in 1..Len(gs) |-> TextFragment(gs[i], StrLen(Concat(SubSeq(gs, 1, i - 1))))]

\* Line::from
Line_from(line_str) == [string |-> line_str, fragments |-> str_to_fragments(line_str)]

Line_default == [string |-> <<>>, fragments |-> <<>>]

grapheme_count(l) == Len(l.fragments)

\* Line::width_until
Line_width_until(l, grapheme_idx) ==
    LET w[i \in 0..Len(l.fragments)] ==
            IF i = 0 THEN 0 ELSE w[i - 1] + GraphemeWidth(l.fragments[i].rendered_width)
    IN  w[Min(grapheme_idx, Len(l.fragments))]

\* Line::width
Line_width(l) == Line_width_until(l, grapheme_count(l))

\* String::insert(byte_idx, character)
StringInsert(s, byte_idx, character) ==
    SubSeq(s, 1, CharsBefore(s, byte_idx)) \o <<character>>
        \o SubSeq(s, CharsBefore(s, byte_idx) + 1, Len(s))

\* String::drain(start..end)
StringDrain(s, start, end) ==
    SubSeq(s, 1, CharsBefore(s, start)) \o SubSeq(s, CharsBefore(s, end) + 1, Len(s))

\* Line::insert_char with the inserted char put after the fragment at `at`
Line_insert_char_after(l, character, at) ==
    IF at < Len(l.fragments)
    THEN Line_from(StringInsert(l.string,
            l.fragments[at + 1].start + StrLen(l.fragments[at + 1].grapheme), character))
    ELSE Line_from(Append(l.string, character))

\* Line::insert_char; grapheme indices count from 0, fragments[at] is l.fragments[at + 1]
Line_insert_char(l, character, at) ==
    IF at < Len(l.fragments)
    THEN Line_from(StringInsert(l.string, l.fragments[at + 1].start, character))
    ELSE Line_from(Append(l.string, character))

\* Line::delete without the rebuild_fragments after the drain
Line_delete_stale(l, at) ==
    IF at < Len(l.fragments)
    THEN LET start == l.fragments[at + 1].start
             end == start + StrLen(l.fragments[at + 1].grapheme)
         IN  [l EXCEPT !.string = StringDrain(l.string, start, end)]
    ELSE l

\* Line::delete
Line_delete(l, at) ==
    IF at < Len(l.fragments)
    THEN LET start == l.fragments[at + 1].start
             end == start + StrLen(l.fragments[at + 1].grapheme)
         IN  Line_from(StringDrain(l.string, start, end))
    ELSE l

\* Line::append with the two texts the other way round
Line_append_swapped(l, other) == Line_from(other.string \o l.string)

\* Line::append
Line_append(l, other) == Line_from(l.string \o other.string)

\* Line::split without the split_off: self keeps all of its text
Line_split_keeps_all(l, at) ==
    IF at < Len(l.fragments)
    THEN LET k == CharsBefore(l.string, l.fragments[at + 1].start)
         IN  <<l, Line_from(SubSeq(l.string, k + 1, Len(l.string)))>>
    ELSE <<l, Line_default>>

\* Line::split: <<self afterwards, the returned Line>>
Line_split(l, at) ==
    IF at < Len(l.fragments)
    THEN LET k == CharsBefore(l.string, l.fragments[at + 1].start)
         IN  <<Line_from(SubSeq(l.string, 1, k)),
               Line_from(SubSeq(l.string, k + 1, Len(l.string)))>>
    ELSE <<l, Line_default>>

\* Line::append_char
Line_append_char(l, character) == Line_insert_char(l, character, grapheme_count(l))

\* Line::delete_last
Line_delete_last(l) == Line_delete(l, SatSub(grapheme_count(l), 1))

line_insert_char ==
    /\ Len(line.string) < LineMaxLen + 1
    /\ \E character \in {"a", "acute"}, at \in 0..grapheme_count(line) :
          /\ line' = Line_insert_char(line, character, at)
          /\ line_last' = [op |-> "insert_char", character |-> character, at |-> at,
                           before |-> line]
    /\ UNCHANGED <<as_vars, it_vars, buf_vars, ed_vars>>

line_delete ==
    /\ \E at \in 0..grapheme_count(line) :
          /\ line' = Line_delete(line, at)
          /\ line_last' =
                IF line_last.op = "insert_char" /\ line_last.at = at
                THEN [op |-> "insert_char_delete", character |-> line_last.character,
                      at |-> at, before |-> line_last.before, inserted |-> line]
                ELSE [op |-> "delete", at |-> at, before |-> line]
    /\ UNCHANGED <<as_vars, it_vars, buf_vars, ed_vars>>

line_append_char ==
    /\ Len(line.string) < LineMaxLen + 1
    /\ \E character \in {"a", "acute"} :
          /\ line' = Line_append_char(line, character)
          /\ line_last' = [op |-> "append_char", character |-> character, before |-> line]
    /\ UNCHANGED <<as_vars, it_vars, buf_vars, ed_vars>>

line_delete_last ==
    /\ line' = Line_delete_last(line)
    /\ line_last' = [op |-> "delete_last", before |-> line]
    /\ UNCHANGED <<as_vars, it_vars, buf_vars, ed_vars>>

line_append ==
    /\ \E other \in {Line_from(s) : s \in StringsUpTo({"a", "acute"}, LineMaxLen)} :
          /\ Len(line.string) + Len(other.string) <= LineMaxLen + 1
          /\ line' = Line_append(line, other)
          /\ line_last' = [op |-> "append", other |-> other, before |-> line]
    /\ UNCHANGED <<as_vars, it_vars, buf_vars, ed_vars>>

line_split ==
    /\ \E at \in 0..grapheme_count(line) :
          /\ line' = Line_split(line, at)[1]
          /\ line_last' = [op |-> "split", at |-> at, before |-> line,
                           returned |-> Line_split(line, at)[2]]
    /\ UNCHANGED <<as_vars, it_vars, buf_vars, ed_vars>>

(***************************************************************************)
(* Line: search                                                            *)
(***************************************************************************)
\* str::match_indices, in chars: the disjoint matches of q in hay from char k on,
\* each search resuming where the match before it ended
RECURSIVE MatchFrom(_, _, _)
MatchFrom(hay, q, k) ==
    IF q = <<>> THEN [i \in 1..(Len(hay) - k + 1) |-> k + i - 1]
    ELSE IF k + Len(q) > Len(hay) THEN <<>>
    ELSE IF SubSeq(hay, k + 1, k + Len(q)) = q
         THEN <<k>> \o MatchFrom(hay, q, k + Len(q))
         ELSE MatchFrom(hay, q, k + 1)

\* str::match_indices: the byte offsets of the matches
match_indices(hay, q) ==
    LET m == MatchFrom(hay, q, 0)
    IN  [i \in 1..Len(m) |-> ByteOffset(hay, m[i])]

\* Line::byte_idx_to_grapheme_idx
byte_idx_to_grapheme_idx(l, byte_idx) ==
    IF byte_idx > StrLen(l.string) THEN None
    ELSE LET at_or_after == {i \in 1..Len(l.fragments) : l.fragments[i].start >= byte_idx}
         IN  IF at_or_after = {} THEN None
             ELSE Some((CHOOSE i \in at_or_after : \A j \in at_or_after : i <= j) - 1)

\* Line::grapheme_idx_to_byte_idx; an index past the last fragment gives 0 in a
\* release build and panics in a debug build: no caller below passes one
grapheme_idx_to_byte_idx(l, grapheme_idx) ==
    IF grapheme_idx = 0 \/ grapheme_count(l) = 0 THEN 0
    ELSE IF grapheme_idx < grapheme_count(l) THEN l.fragments[grapheme_idx + 1].start
    ELSE 0

\* Line::match_grapheme_clusters
match_grapheme_clusters(l, matches, query) ==
    LET cnt == Len(graphemes(query))
        g(start) == byte_idx_to_grapheme_idx(l, start)
        ok(start) ==
            /\ g(start) # None
            /\ g(start)[1] + cnt <= Len(l.fragments)
            /\ Concat([i \in 1..cnt |-> l.fragments[g(start)[1] + i].grapheme]) = query
        kept == SelectSeq(matches, ok)
    IN  [i \in 1..Len(kept) |-> <<kept[i], g(kept[i])[1]>>]

\* Line::find_all(query, start..range_end)
find_all(l, query, start, range_end) ==
    LET end == Min(range_end, StrLen(l.string))
    IN  IF ~SliceOk(l.string, start, end) THEN <<>>
        ELSE LET potential == match_indices(Slice(l.string, start, end), query)
             IN  match_grapheme_clusters(l,
                     [i \in 1..Len(potential) |-> potential[i] + start], query)

\* Line::search_forward
Line_search_forward(l, query, from_grapheme_idx) ==
    IF from_grapheme_idx = grapheme_count(l) THEN None
    ELSE LET start == grapheme_idx_to_byte_idx(l, from_grapheme_idx)
             found == find_all(l, query, start, StrLen(l.string))
         IN  IF found = <<>> THEN None ELSE Some(found[1][2])

\* Line::search_backward
Line_search_backward(l, query, from_grapheme_idx) ==
    IF from_grapheme_idx = 0 THEN None
    ELSE LET end_byte_idx == IF from_grapheme_idx = grapheme_count(l)
                             THEN StrLen(l.string)
                             ELSE grapheme_idx_to_byte_idx(l, from_grapheme_idx)
             found == find_all(l, query, 0, end_byte_idx)
         IN  IF found = <<>> THEN None ELSE Some(found[Len(found)][2])

\* Line::search_forward(query, from_grapheme_idx), from_grapheme_idx <= grapheme_count()
line_search_forward ==
    /\ line_last = NoCall
    /\ \E query \in StringsUpTo({"a", "acute"}, SearchMaxQuery),
          from_grapheme_idx \in 0..grapheme_count(line) :
          line_last' = [op |-> "search_forward", query |-> query,
                        from |-> from_grapheme_idx,
                        result |-> Line_search_forward(line, query, from_grapheme_idx)]
    /\ UNCHANGED <<line, as_vars, it_vars, buf_vars, ed_vars>>

\* Line::search_backward(query, from_grapheme_idx), from_grapheme_idx <= grapheme_count()
line_search_backward ==
    /\ line_last = NoCall
    /\ \E query \in StringsUpTo({"a", "acute"}, SearchMaxQuery),
          from_grapheme_idx \in 0..grapheme_count(line) :
          line_last' = [op |-> "search_backward", query |-> query,
                        from |-> from_grapheme_idx,
                        result |-> Line_search_backward(line, query, from_grapheme_idx)]
    /\ UNCHANGED <<line, as_vars, it_vars, buf_vars, ed_vars>>

\* Line::find_all(query, start..end), start <= end
line_find_all ==
    /\ line_last = NoCall
    /\ \E query \in StringsUpTo({"a", "acute"}, SearchMaxQuery) \cup {<<"LF">>},
          start \in 0..StrLen(line.string), end \in 0..(StrLen(line.string) + 1) :
          /\ start <= end
          /\ line_last' = [op |-> "find_all", query |-> query, start |-> start,
                           end |-> end, result |-> find_all(line, query, start, end)]
    /\ UNCHANGED <<line, as_vars, it_vars, buf_vars, ed_vars>>

(***************************************************************************)
(* Line: the visible part                                                  *)
(***************************************************************************)
\* an AnnotatedString as a value
AnnotatedString(string, annotations) == [string |-> string, annotations |-> annotations]

\* AnnotatedString::replace on a value
AnnotatedString_replace(result, start_byte_idx, end_byte_idx, new_string) ==
    AnnotatedString(
        ReplacedString(result.string, start_byte_idx, end_byte_idx, new_string),
        ReplacedAnnotations(result.string, result.annotations, start_byte_idx,
                            end_byte_idx, new_string))

\* truncate_left_until that leaves a marker in place of the prefix
truncate_left_until_marked(result, until) ==
    AnnotatedString_replace(result, 0, until, <<"ellipsis">>)

\* AnnotatedString::truncate_left_until(until): replace of the prefix with ""
truncate_left_until(result, until) == AnnotatedString_replace(result, 0, until, <<>>)

\* AnnotatedString::truncate_right_from(from): replace of the suffix with ""
truncate_right_from(result, from) ==
    AnnotatedString_replace(result, from, StrLen(result.string), <<>>)

\* a column range start..end
Range(start, end) == [start |-> start, end |-> end]

\* the loop of Line::get_annotated_visible_substr over the fragments in reverse:
\* fragment i is next, its right edge is at column fragment_end
RECURSIVE ClipFragments(_, _, _, _, _)
ClipFragments(l, i, fragment_end, result, range) ==
    IF i = 0 THEN result
    ELSE
      LET fragment == l.fragments[i]
          fragment_start == SatSub(fragment_end, GraphemeWidth(fragment.rendered_width))
          byte_end == fragment.start + StrLen(fragment.grapheme)
      IN  IF fragment_start > range.end
          THEN ClipFragments(l, i - 1, fragment_start, result, range)
          ELSE IF fragment_start < range.end /\ fragment_end > range.end
          THEN ClipFragments(l, i - 1, fragment_start,
                   AnnotatedString_replace(result, fragment.start, StrLen(l.string),
                                           <<"ellipsis">>),
                   range)
          ELSE IF fragment_start = range.end
          THEN ClipFragments(l, i - 1, fragment_start,
                             truncate_right_from(result, fragment.start), range)
          ELSE IF fragment_end <= range.start
          THEN truncate_left_until(result, byte_end)
          ELSE IF fragment_start < range.start /\ fragment_end > range.start
          THEN AnnotatedString_replace(result, 0, byte_end, <<"ellipsis">>)
          ELSE IF /\ fragment_start >= range.start
                  /\ fragment_end <= range.end
                  /\ fragment.replacement # None
          THEN ClipFragments(l, i - 1, fragment_start,
                   AnnotatedString_replace(result, fragment.start, byte_end,
                                           fragment.replacement),
                   range)
          ELSE ClipFragments(l, i - 1, fragment_start, result, range)

\* Line::get_annotated_visible_substr(range, annotations)
get_annotated_visible_substr(l, range, annotations) ==
    IF range.start >= range.end
    THEN AnnotatedString(<<>>, <<>>)
    ELSE ClipFragments(l, Len(l.fragments), Line_width(l),
                       AnnotatedString(l.string, annotations), range)

\* the annotations a caller passes for line l: none, or one over whole fragments
LineAnnotations(l) ==
    {<<>>} \cup
    {<<Annotation("Match", l.fragments[i].start,
                  l.fragments[j].start + StrLen(l.fragments[j].grapheme))>> :
        i \in 1..Len(l.fragments), j \in 1..Len(l.fragments)}

\* Line::get_annotated_visible_substr(start..end, annotations)
line_get_annotated_visible_substr ==
    /\ line_last = NoCall
    /\ \E start \in 0..(Line_width(line) + 1), end \in 0..(Line_width(line) + 1),
          annotations \in LineAnnotations(line) :
          line_last' = [op |-> "get_annotated_visible_substr",
                        range |-> Range(start, end), annotations |-> annotations,
                        result |-> get_annotated_visible_substr(line, Range(start, end),
                                                                annotations)]
    /\ UNCHANGED <<line, as_vars, it_vars, buf_vars, ed_vars>>

\* Line::width
line_width ==
    /\ line_last = NoCall
    /\ line_last' = [op |-> "width", result |-> Line_width(line)]
    /\ UNCHANGED <<line, as_vars, it_vars, buf_vars, ed_vars>>

\* Line::width_until(grapheme_idx)
line_width_until ==
    /\ line_last = NoCall
    /\ \E grapheme_idx \in 0..(grapheme_count(line) + 1) :
          line_last' = [op |-> "width_until", grapheme_idx |-> grapheme_idx,
                        result |-> Line_width_until(line, grapheme_idx)]
    /\ UNCHANGED <<line, as_vars, it_vars, buf_vars, ed_vars>>

(***************************************************************************)
(* Buffer                                                                  *)
(***************************************************************************)
Location(l, g) == [line_idx |-> l, grapheme_idx |-> g]

Absent == "absent"
Paths == {"f"}

Texts(ls) == [i \in 1..Len(ls) |-> ls[i].string]
TotalChars(ls) == Len(Concat(Texts(ls)))

Panicked == buf_last.op = "panic"

\* Buffer::search_forward: the lines visited are cycle().skip(from.line_idx)
\* .take(len + 1) of the enumerated lines
Buffer_search_forward(ls, query, from) ==
    IF query = <<>> \/ ls = <<>> THEN None
    ELSE LET n == Len(ls)
             visit(i) == (from.line_idx + i - 1) % n
             res(i) == Line_search_forward(ls[visit(i) + 1], query,
                            IF i = 1 THEN from.grapheme_idx ELSE 0)
             hits == {i \in 1..(n + 1) : res(i) # None}
         IN  IF hits = {} THEN None
             ELSE LET i == CHOOSE h \in hits : \A k \in hits : h <= k
                  IN  Some(Location(visit(i), res(i)[1]))

\* Buffer::search_backward: the lines visited are rev().cycle()
\* .skip(len - from.line_idx - 1).take(len + 1) of the enumerated lines
Buffer_search_backward(ls, query, from) ==
    IF query = <<>> \/ ls = <<>> THEN None
    ELSE LET n == Len(ls)
             skip == SatSub(SatSub(n, from.line_idx), 1)
             visit(i) == n - 1 - ((skip + i - 1) % n)
             res(i) == Line_search_backward(ls[visit(i) + 1], query,
                            IF i = 1 THEN from.grapheme_idx
                            ELSE grapheme_count(ls[visit(i) + 1]))
             hits == {i \in 1..(n + 1) : res(i) # None}
         IN  IF hits = {} THEN None
             ELSE LET i == CHOOSE h \in hits : \A k \in hits : h <= k
                  IN  Some(Location(visit(i), res(i)[1]))

\* str::lines: cur is the line being read, acc the lines read so far
RECURSIVE LinesOf(_, _, _)
LinesOf(contents, cur, acc) ==
    IF contents = <<>> THEN (IF cur = <<>> THEN acc ELSE Append(acc, cur))
    ELSE IF Head(contents) = "LF"
         THEN LinesOf(Tail(contents), <<>>,
                  Append(acc, IF cur # <<>> /\ cur[Len(cur)] = "CR"
                              THEN SubSeq(cur, 1, Len(cur) - 1) ELSE cur))
         ELSE LinesOf(Tail(contents), Append(cur, Head(contents)), acc)

str_lines(contents) == LinesOf(contents, <<>>, <<>>)

\* what save_to_file writes: every line followed by a newline
Written(ls) == Concat([i \in 1..Len(ls) |-> ls[i].string \o <<"LF">>])

\* Buffer::delete, the lines afterwards
Buffer_delete(ls, at) ==
    IF at.line_idx < Len(ls)
    THEN IF at.grapheme_idx >= grapheme_count(ls[at.line_idx + 1])
            /\ Len(ls) > at.line_idx + 1
         THEN LET next_line == ls[at.line_idx + 2]
                  removed == SubSeq(ls, 1, at.line_idx + 1)
                                \o SubSeq(ls, at.line_idx + 3, Len(ls))
              IN  [removed EXCEPT ![at.line_idx + 1] = Line_append(@, next_line)]
         ELSE IF at.grapheme_idx < grapheme_count(ls[at.line_idx + 1])
              THEN [ls EXCEPT ![at.line_idx + 1] = Line_delete(@, at.grapheme_idx)]
              ELSE ls
    ELSE ls

\* Buffer::delete without the dirty = true of its merging branch
Buffer_delete_dirties_char_only(ls, at) ==
    /\ at.line_idx < Len(ls)
    /\ at.grapheme_idx < grapheme_count(ls[at.line_idx + 1])

\* Buffer::delete sets dirty in its two editing branches only
Buffer_delete_dirties(ls, at) ==
    /\ at.line_idx < Len(ls)
    /\ \/ at.grapheme_idx >= grapheme_count(ls[at.line_idx + 1]) /\ Len(ls) > at.line_idx + 1
       \/ at.grapheme_idx < grapheme_count(ls[at.line_idx + 1])

\* the grapheme indices of line line_idx and one past its end; 0 for no such line
Columns(ls, line_idx) ==
    IF line_idx < Len(ls) THEN 0..grapheme_count(ls[line_idx + 1]) ELSE {0}

\* the same and one column past the end of the line
ColumnsAndPast(ls, line_idx) ==
    Columns(ls, line_idx) \cup {Cardinality(Columns(ls, line_idx))}

\* Buffer::insert_char at a Location of the buffer (at.line_idx <= height())
buf_insert_char(alphabet, max_chars, max_lines) ==
    /\ ~Panicked
    /\ TotalChars(lines) < max_chars
    /\ \E character \in alphabet, line_idx \in 0..Len(lines) :
         \E grapheme_idx \in Columns(lines, line_idx) :
            /\ line_idx = Len(lines) => Len(lines) < max_lines
            /\ lines' = IF line_idx = Len(lines)
                        THEN Append(lines, Line_from(<<character>>))
                        ELSE [lines EXCEPT ![line_idx + 1] =
                                 Line_insert_char(@, character, grapheme_idx)]
            /\ dirty' = TRUE
            /\ buf_last' = [op |-> "insert_char"]
    /\ UNCHANGED <<file_info, disk, synced, as_vars, it_vars, line_vars, ed_vars>>

\* Buffer::delete
buf_delete ==
    /\ ~Panicked
    /\ \E line_idx \in 0..Len(lines) :
         \E grapheme_idx \in ColumnsAndPast(lines, line_idx) :
            LET at == Location(line_idx, grapheme_idx)
            IN  /\ lines' = Buffer_delete(lines, at)
                /\ dirty' = (dirty \/ Buffer_delete_dirties(lines, at))
                /\ buf_last' = [op |-> "delete", at |-> at, before |-> Texts(lines)]
    /\ UNCHANGED <<file_info, disk, synced, as_vars, it_vars, line_vars, ed_vars>>

\* Buffer::insert_newline
buf_insert_newline(max_lines) ==
    /\ ~Panicked
    /\ Len(lines) < max_lines
    /\ \E line_idx \in 0..Len(lines) :
         \E grapheme_idx \in ColumnsAndPast(lines, line_idx) :
            /\ lines' = IF line_idx = Len(lines)
                        THEN Append(lines, Line_default)
                        ELSE LET halves == Line_split(lines[line_idx + 1], grapheme_idx)
                             IN  SubSeq(lines, 1, line_idx) \o halves
                                    \o SubSeq(lines, line_idx + 2, Len(lines))
            /\ dirty' = TRUE
            /\ buf_last' = [op |-> "insert_newline",
                            at |-> Location(line_idx, grapheme_idx),
                            before |-> lines]
    /\ UNCHANGED <<file_info, disk, synced, as_vars, it_vars, line_vars, ed_vars>>

\* the Locations outside the buffer: a line past height(), or a column past the
\* end of a line; for delete every Location of a line at or past height()
OutsideLocations(ls) ==
    {Location(Len(ls) + 1, g) : g \in 0..1}
        \cup {Location(l, grapheme_count(ls[l + 1]) + d) : l \in 0..(Len(ls) - 1), d \in 1..2}

OutsideLocationsOfDelete(ls) == {Location(Len(ls) + d, g) : d \in 0..1, g \in 0..1}

\* Buffer::insert_char at a Location outside the buffer. The debug_assert! of
\* Buffer::insert_char and of Line::insert_char panic in a debug build.
buf_insert_char_outside ==
    /\ ~Panicked
    /\ TotalChars(lines) < EditMaxChars
    /\ \E character \in {"a", "acute"}, at \in OutsideLocations(lines),
          debug_assertions \in BOOLEAN :
          IF debug_assertions
                /\ \/ at.line_idx > Len(lines)
                   \/ /\ at.line_idx < Len(lines)
                      /\ SatSub(at.grapheme_idx, 1) > grapheme_count(lines[at.line_idx + 1])
          THEN /\ buf_last' = [op |-> "panic"]
               /\ UNCHANGED <<lines, dirty>>
          ELSE /\ lines' = IF at.line_idx < Len(lines)
                           THEN [lines EXCEPT ![at.line_idx + 1] =
                                    Line_insert_char(@, character, at.grapheme_idx)]
                           ELSE lines
               /\ dirty' = (dirty \/ at.line_idx < Len(lines))
               /\ buf_last' = [op |-> "outside", call |-> "insert_char", at |-> at,
                               before |-> lines, was_dirty |-> dirty]
    /\ UNCHANGED <<file_info, disk, synced, as_vars, it_vars, line_vars, ed_vars>>

\* Buffer::insert_newline at a Location outside the buffer
buf_insert_newline_outside ==
    /\ ~Panicked
    /\ Len(lines) < EditMaxLines
    /\ \E at \in OutsideLocations(lines) :
          /\ lines' = IF at.line_idx < Len(lines)
                      THEN LET halves == Line_split(lines[at.line_idx + 1], at.grapheme_idx)
                           IN  SubSeq(lines, 1, at.line_idx) \o halves
                                  \o SubSeq(lines, at.line_idx + 2, Len(lines))
                      ELSE lines
          /\ dirty' = (dirty \/ at.line_idx < Len(lines))
          /\ buf_last' = [op |-> "outside", call |-> "insert_newline", at |-> at,
                          before |-> lines, was_dirty |-> dirty]
    /\ UNCHANGED <<file_info, disk, synced, as_vars, it_vars, line_vars, ed_vars>>

\* Buffer::delete at a Location of a line at or past height()
buf_delete_outside ==
    /\ ~Panicked
    /\ \E at \in OutsideLocationsOfDelete(lines) :
          /\ lines' = Buffer_delete(lines, at)
          /\ dirty' = (dirty \/ Buffer_delete_dirties(lines, at))
          /\ buf_last' = [op |-> "outside", call |-> "delete", at |-> at,
                          before |-> lines, was_dirty |-> dirty]
    /\ UNCHANGED <<file_info, disk, synced, as_vars, it_vars, line_vars, ed_vars>>

\* Buffer::load; read_to_string fails for a missing file and the caller
\* (View::load) then keeps the buffer it has
buf_load ==
    /\ ~Panicked
    /\ \E file_name \in Paths :
          IF disk[file_name] = Absent
          THEN /\ buf_last' = [op |-> "load", result |-> "Err"]
               /\ UNCHANGED <<lines, file_info, dirty, synced>>
          ELSE /\ lines' = [i \in 1..Len(str_lines(disk[file_name])) |->
                               Line_from(str_lines(disk[file_name])[i])]
               /\ file_info' = Some(file_name)
               /\ dirty' = FALSE
               /\ synced' = str_lines(disk[file_name])
               /\ buf_last' =
                     IF buf_last.op = "save" /\ buf_last.result = "Ok"
                            /\ buf_last.path = Some(file_name)
                     THEN [op |-> "save_load", saved |-> buf_last.saved]
                     ELSE [op |-> "load", result |-> "Ok"]
    /\ UNCHANGED <<disk, as_vars, it_vars, line_vars, ed_vars>>

\* Buffer::save with save_to_file. Without a path a debug build panics and a
\* release build writes nothing and returns Ok; File::create can fail.
buf_save ==
    /\ ~Panicked
    /\ \/ /\ file_info = None
          /\ \E debug_assertions \in BOOLEAN :
                IF debug_assertions
                THEN /\ buf_last' = [op |-> "panic"]
                     /\ UNCHANGED <<dirty, disk, synced>>
                ELSE /\ dirty' = FALSE
                     /\ synced' = Texts(lines)
                     /\ buf_last' = [op |-> "save", result |-> "Ok", path |-> None,
                                     saved |-> Texts(lines),
                                     was_dirty |-> dirty]
                     /\ UNCHANGED disk
       \/ /\ file_info # None
          /\ \E created \in BOOLEAN :
                IF created
                THEN /\ disk' = [disk EXCEPT ![file_info[1]] = Written(lines)]
                     /\ dirty' = FALSE
                     /\ synced' = Texts(lines)
                     /\ buf_last' = [op |-> "save", result |-> "Ok", path |-> file_info,
                                     saved |-> Texts(lines),
                                     was_dirty |-> dirty]
                ELSE /\ buf_last' = [op |-> "save", result |-> "Err", path |-> file_info,
                                     saved |-> Texts(lines),
                                     was_dirty |-> dirty]
                     /\ UNCHANGED <<dirty, disk, synced>>
    /\ UNCHANGED <<lines, file_info, as_vars, it_vars, line_vars, ed_vars>>

\* Buffer::save_as
buf_save_as ==
    /\ ~Panicked
    /\ \E file_name \in Paths, created \in BOOLEAN :
          IF created
          THEN /\ disk' = [disk EXCEPT ![file_name] = Written(lines)]
               /\ file_info' = Some(file_name)
               /\ dirty' = FALSE
               /\ synced' = Texts(lines)
               /\ buf_last' = [op |-> "save", result |-> "Ok", path |-> Some(file_name),
                               saved |-> Texts(lines), was_dirty |-> dirty]
          ELSE /\ buf_last' = [op |-> "save", result |-> "Err", path |-> Some(file_name),
                               saved |-> Texts(lines), was_dirty |-> dirty]
               /\ UNCHANGED <<file_info, dirty, disk, synced>>
    /\ UNCHANGED <<lines, as_vars, it_vars, line_vars, ed_vars>>

\* the Locations inside the buffer
Locations(ls) ==
    {Location(l, g) : l \in 0..(Len(ls) - 1), g \in 0..SearchMaxChars} \cap
    {loc \in [line_idx : 0..(Len(ls) - 1), grapheme_idx : 0..SearchMaxChars] :
        loc.grapheme_idx <= grapheme_count(ls[loc.line_idx + 1])}

\* Buffer::search_forward, once on a buffer
buf_search_forward ==
    /\ buf_last = NoCall
    /\ \E query \in StringsUpTo({"a", "acute"}, SearchMaxQuery), from \in Locations(lines) :
          buf_last' = [op |-> "search_forward", query |-> query, from |-> from,
                       result |-> Buffer_search_forward(lines, query, from)]
    /\ UNCHANGED <<lines, file_info, dirty, disk, synced, as_vars, it_vars, line_vars, ed_vars>>

\* Buffer::search_backward, once on a buffer
buf_search_backward ==
    /\ buf_last = NoCall
    /\ \E query \in StringsUpTo({"a", "acute"}, SearchMaxQuery), from \in Locations(lines) :
          buf_last' = [op |-> "search_backward", query |-> query, from |-> from,
                       result |-> Buffer_search_backward(lines, query, from)]
    /\ UNCHANGED <<lines, file_info, dirty, disk, synced, as_vars, it_vars, line_vars, ed_vars>>

(***************************************************************************)
(* View: the cursor, the scroll offset and the edits and moves made at     *)
(* them. The redraw flags decide nothing here.                             *)
(***************************************************************************)
Size(h, w) == [height |-> h, width |-> w]

\* Buffer::grapheme_count(idx): 0 for a line that does not exist
Buffer_grapheme_count(ls, idx) ==
    IF idx < Len(ls) THEN grapheme_count(ls[idx + 1]) ELSE 0

\* Buffer::insert_char, the lines afterwards (release build)
Buffer_insert_char(ls, character, at) ==
    IF at.line_idx = Len(ls) THEN Append(ls, Line_from(<<character>>))
    ELSE IF at.line_idx < Len(ls)
         THEN [ls EXCEPT ![at.line_idx + 1] = Line_insert_char(@, character, at.grapheme_idx)]
         ELSE ls

\* Buffer::insert_newline, the lines afterwards
Buffer_insert_newline(ls, at) ==
    IF at.line_idx = Len(ls) THEN Append(ls, Line_default)
    ELSE IF at.line_idx < Len(ls)
         THEN SubSeq(ls, 1, at.line_idx) \o Line_split(ls[at.line_idx + 1], at.grapheme_idx)
                 \o SubSeq(ls, at.line_idx + 2, Len(ls))
         ELSE ls

\* View::snap_to_valid_grapheme leaving the column as it is
snap_to_valid_grapheme_kept(ls, loc) == loc

\* View::snap_to_valid_grapheme
snap_to_valid_grapheme(ls, loc) ==
    [loc EXCEPT !.grapheme_idx = Min(@, Buffer_grapheme_count(ls, loc.line_idx))]

\* View::snap_to_valid_line
snap_to_valid_line(ls, loc) == [loc EXCEPT !.line_idx = Min(@, Len(ls))]

\* View::move_up
move_up(ls, loc, step) ==
    snap_to_valid_grapheme(ls, [loc EXCEPT !.line_idx = SatSub(@, step)])

\* View::move_down
move_down(ls, loc, step) ==
    snap_to_valid_grapheme(ls, snap_to_valid_line(ls, [loc EXCEPT !.line_idx = @ + step]))

\* View::move_to_start_of_line
move_to_start_of_line(loc) == [loc EXCEPT !.grapheme_idx = 0]

\* View::move_to_end_of_line
move_to_end_of_line(ls, loc) ==
    [loc EXCEPT !.grapheme_idx = Buffer_grapheme_count(ls, loc.line_idx)]

\* View::move_right
move_right(ls, loc) ==
    IF loc.grapheme_idx < Buffer_grapheme_count(ls, loc.line_idx)
    THEN [loc EXCEPT !.grapheme_idx = @ + 1]
    ELSE move_down(ls, move_to_start_of_line(loc), 1)

\* View::move_left
move_left(ls, loc) ==
    IF loc.grapheme_idx > 0 THEN [loc EXCEPT !.grapheme_idx = @ - 1]
    ELSE IF loc.line_idx > 0 THEN move_to_end_of_line(ls, move_up(ls, loc, 1))
    ELSE loc

Move == {"Up", "Down", "PageUp", "PageDown", "Left", "Right", "StartOfLine", "EndOfLine"}

\* View::handle_move_command, the cursor afterwards; height is View.size.height
handle_move_command(ls, loc, command, height) ==
    CASE command = "Up" -> move_up(ls, loc, 1)
      [] command = "Down" -> move_down(ls, loc, 1)
      [] command = "PageUp" -> move_up(ls, loc, SatSub(height, 1))
      [] command = "PageDown" -> move_down(ls, loc, SatSub(height, 1))
      [] command = "Left" -> move_left(ls, loc)
      [] command = "Right" -> move_right(ls, loc)
      [] command = "StartOfLine" -> move_to_start_of_line(loc)
      [] command = "EndOfLine" -> move_to_end_of_line(ls, loc)

\* Position
Position(col, row) == [col |-> col, row |-> row]

\* Position::saturating_sub
Position_saturating_sub(p, other) ==
    Position(SatSub(p.col, other.col), SatSub(p.row, other.row))

\* usize::div_ceil(2)
HalfUp(n) == (n + 1) \div 2

\* Buffer::width_until: 0 for a line that does not exist
Buffer_width_until(ls, idx, until) ==
    IF idx < Len(ls) THEN Line_width_until(ls[idx + 1], until) ELSE 0

\* View::text_location_to_position (release build)
text_location_to_position(ls, loc) ==
    Position(Buffer_width_until(ls, loc.line_idx, loc.grapheme_idx), loc.line_idx)

\* View::scroll_vertically: the scroll offset afterwards
scroll_vertically(offset, to, height) ==
    IF to < offset.row THEN [offset EXCEPT !.row = to]
    ELSE IF to >= offset.row + height THEN [offset EXCEPT !.row = SatSub(to, height) + 1]
    ELSE offset

\* View::scroll_horizontally: the scroll offset afterwards
scroll_horizontally(offset, to, width) ==
    IF to < offset.col THEN [offset EXCEPT !.col = to]
    ELSE IF to >= offset.col + width THEN [offset EXCEPT !.col = SatSub(to, width) + 1]
    ELSE offset

\* View::scroll_text_location_into_view: the scroll offset afterwards
scroll_text_location_into_view(ls, loc, offset, size) ==
    LET to == text_location_to_position(ls, loc)
    IN  scroll_horizontally(scroll_vertically(offset, to.row, size.height), to.col,
                            size.width)

\* View::center_text_location: the scroll offset afterwards
center_text_location(ls, loc, size) ==
    LET to == text_location_to_position(ls, loc)
    IN  Position(SatSub(to.col, HalfUp(size.width)), SatSub(to.row, HalfUp(size.height)))

\* View::caret_position
caret_position(ls, loc, offset) ==
    Position_saturating_sub(text_location_to_position(ls, loc), offset)

\* a View as far as commands go: the lines, the cursor, Buffer.dirty and the
\* scroll offset
ViewOf(ls, loc, d, offset) ==
    [lines |-> ls, text_location |-> loc, dirty |-> d, scroll_offset |-> offset]

\* View::handle_move_command, the View afterwards; size is View.size
View_handle_move_command(v, command, size) ==
    LET loc == handle_move_command(v.lines, v.text_location, command, size.height)
    IN  [v EXCEPT !.text_location = loc,
                  !.scroll_offset = scroll_text_location_into_view(v.lines, loc, @, size)]

\* View::insert_newline
View_insert_newline(v, size) ==
    View_handle_move_command(
        [v EXCEPT !.lines = Buffer_insert_newline(v.lines, v.text_location),
                  !.dirty = @ \/ v.text_location.line_idx <= Len(v.lines)],
        "Right", size)

\* View::delete
View_delete(v) ==
    [v EXCEPT !.lines = Buffer_delete(v.lines, v.text_location),
              !.dirty = @ \/ Buffer_delete_dirties(v.lines, v.text_location)]

\* View::delete_backward
View_delete_backward(v, size) ==
    IF v.text_location.line_idx # 0 \/ v.text_location.grapheme_idx # 0
    THEN View_delete(View_handle_move_command(v, "Left", size))
    ELSE v

\* View::insert_char
View_insert_char(v, character, size) ==
    LET old_len == Buffer_grapheme_count(v.lines, v.text_location.line_idx)
        ls == Buffer_insert_char(v.lines, character, v.text_location)
        new_len == Buffer_grapheme_count(ls, v.text_location.line_idx)
        inserted == [v EXCEPT !.lines = ls,
                              !.dirty = @ \/ v.text_location.line_idx <= Len(v.lines)]
    IN  IF SatSub(new_len, old_len) > 0
        THEN View_handle_move_command(inserted, "Right", size)
        ELSE inserted

Edit == {"Insert", "InsertNewline", "Delete", "DeleteBackward"}

\* View::handle_edit_command; character is the char of an Insert
View_handle_edit_command(v, command, character, size) ==
    CASE command = "DeleteBackward" -> View_delete_backward(v, size)
      [] command = "Delete" -> View_delete(v)
      [] command = "InsertNewline" -> View_insert_newline(v, size)
      [] command = "Insert" -> View_insert_char(v, character, size)

\* SearchInfo
SearchInfo(prev_location, prev_scroll_offset, query) ==
    [prev_location |-> prev_location, prev_scroll_offset |-> prev_scroll_offset,
     query |-> query]

\* the line Buffer::search_forward / search_backward visits first
FirstVisited(ls, from, direction) ==
    IF direction = "Forward" THEN ls[(from.line_idx % Len(ls)) + 1]
    ELSE ls[Len(ls) - ((SatSub(SatSub(Len(ls), from.line_idx), 1)) % Len(ls))]

\* View::search_in_direction in a debug build: the debug_assert! of
\* View::get_search_query (no query yet) or of Line::search_forward /
\* search_backward (a start column past the end of the line) fails
search_in_direction_panics(ls, query, from, direction) ==
    \/ query = None
    \/ /\ query[1] # <<>>
       /\ ls # <<>>
       /\ from.grapheme_idx > grapheme_count(FirstVisited(ls, from, direction))

\* View::search_in_direction: what the search of the Buffer returns
search_found(ls, query, from, direction) ==
    IF query = None \/ query[1] = <<>> THEN None
    ELSE IF direction = "Forward" THEN Buffer_search_forward(ls, query[1], from)
    ELSE Buffer_search_backward(ls, query[1], from)

\* View::search_in_direction, the View afterwards (release build): the cursor
\* goes to a match and the match is centered
search_in_direction(v, query, from, direction, size) ==
    LET found == search_found(v.lines, query, from, direction)
    IN  IF found = None THEN v
        ELSE [v EXCEPT !.text_location = found[1],
                       !.scroll_offset = center_text_location(v.lines, found[1], size)]

\* View::search_next: the Location the search starts from
search_next_from(loc, query) ==
    LET step_right == IF query = None THEN 1
                      ELSE Min(Len(graphemes(query[1])), 1)
    IN  Location(loc.line_idx, loc.grapheme_idx + step_right)

(***************************************************************************)
(* Editor: one action per Command, each the whole of process_command.      *)
(***************************************************************************)
QUIT_TIMES == 3

PromptType == {"None", "Save", "Search"}

\* the terminal sizes a Resize can bring: the whole text fits into both
Sizes == {Size(h, EdWidth) : h \in {6, 8}}

\* the terminal sizes a Resize can bring over the View: no room for the View,
\* and room for one line of it
ViewSizes == {Size(h, ViewWidth) : h \in {1, 3}}

\* the terminal sizes a Resize can bring where the screen is looked at: two
\* widths as well
ScreenSizes == {Size(h, w) : h \in {1, 3}, w \in {ViewWidth, ViewWidth + 1}}

\* the chars typed over the View: a combining one and a wide blank
ViewAlphabet == {"acute", "ispace"}

\* View.size.height after Editor::handle_resize_command
ViewHeight == SatSub(terminal_size.height, 2)

\* View.size after Editor::handle_resize_command(size)
ViewSize(size) == Size(SatSub(size.height, 2), size.width)

Running == ~should_quit /\ ed_last.op # "panic"

\* the command just processed, the mode and the status it was processed in
Processed(command) ==
    [op |-> command, mode |-> prompt_type, was_modified |-> dirty]

\* what a session keeps of the command just processed: all of it, or nothing
Kept(kept, command) == IF kept THEN Processed(command) ELSE NoCall

\* Editor::handle_quit_command counting to QUIT_TIMES before it gives in
handle_quit_command_late(is_modified, times) ==
    IF ~is_modified \/ times = QUIT_TIMES
    THEN [should_quit |-> TRUE, quit_times |-> times]
    ELSE [should_quit |-> FALSE, quit_times |-> times + 1]

\* Editor::handle_quit_command: should_quit and quit_times afterwards
handle_quit_command(is_modified, times) ==
    IF ~is_modified \/ times + 1 = QUIT_TIMES
    THEN [should_quit |-> TRUE, quit_times |-> times]
    ELSE IF is_modified
         THEN [should_quit |-> FALSE, quit_times |-> (times + 1) % 256]
         ELSE [should_quit |-> FALSE, quit_times |-> times]

\* Editor::reset_quit_times
reset_quit_times(times) == IF times > 0 THEN 0 ELSE times

\* the path a typed file name stands for; File::create fails for the others
PathOf(file_name) == IF file_name = <<"f">> THEN Some("f") ELSE None

\* CommandBar::handle_edit_command: the value afterwards
CommandBar_handle_edit_command(value, command, character) ==
    CASE command = "Insert" -> Line_append_char(Line_from(value), character).string
      [] command = "DeleteBackward" -> Line_delete_last(Line_from(value)).string
      [] OTHER -> value

\* CommandBar.prompt.len() as Editor::set_prompt leaves it in each mode
PromptLen(mode) ==
    CASE mode = "Save" -> 9
      [] mode = "Search" -> 44
      [] OTHER -> 0

\* CommandBar::caret_position_col; width is CommandBar.size.width
caret_position_col(mode, value, width) ==
    Min(PromptLen(mode) + grapheme_count(Line_from(value)), width)

\* the parts of the state no Command touches
ed_frame == UNCHANGED <<buf_last, as_vars, it_vars, line_vars>>

\* System(Resize(size)): handle_resize_command, in every mode, with
\* View::set_size
process_resize(sizes, kept) ==
    /\ Running
    /\ \E size \in sizes :
          /\ terminal_size' = size
          /\ scroll_offset' = scroll_text_location_into_view(lines, text_location,
                                                             scroll_offset, ViewSize(size))
    /\ ed_last' = Kept(kept, "Resize")
    /\ UNCHANGED <<lines, file_info, dirty, disk, synced, text_location, search_info,
                   command_bar, prompt_type, should_quit, quit_times, ed_run>>
    /\ ed_frame

\* System(Quit): handle_quit_command in normal mode, ignored at a prompt
process_quit(kept) ==
    /\ Running
    /\ IF prompt_type = "None"
       THEN /\ should_quit' = handle_quit_command(dirty, quit_times).should_quit
            /\ quit_times' = handle_quit_command(dirty, quit_times).quit_times
            /\ ed_run' = ed_run + 1
       ELSE UNCHANGED <<should_quit, quit_times, ed_run>>
    /\ ed_last' = Kept(kept, "Quit")
    /\ UNCHANGED <<lines, file_info, dirty, disk, synced, text_location, scroll_offset,
                   search_info, command_bar, prompt_type, terminal_size>>
    /\ ed_frame

\* System(Search): in normal mode set_prompt(Search) with View::enter_search
process_search(kept) ==
    /\ Running
    /\ IF prompt_type = "None"
       THEN /\ quit_times' = reset_quit_times(quit_times)
            /\ search_info' = Some(SearchInfo(text_location, scroll_offset, None))
            /\ command_bar' = <<>>
            /\ prompt_type' = "Search"
       ELSE UNCHANGED <<quit_times, search_info, command_bar, prompt_type>>
    /\ ed_last' = Kept(kept, "Search")
    /\ ed_run' = 0
    /\ UNCHANGED <<lines, file_info, dirty, disk, synced, text_location, scroll_offset,
                   terminal_size, should_quit>>
    /\ ed_frame

\* System(Save): in normal mode handle_save_command, Buffer::save on a buffer
\* with a path (File::create can fail) and the Save prompt on one without
process_save(kept) ==
    /\ Running
    /\ IF prompt_type = "None"
       THEN /\ quit_times' = reset_quit_times(quit_times)
            /\ IF file_info # None
               THEN /\ \E created \in BOOLEAN :
                         IF created
                         THEN /\ disk' = [disk EXCEPT ![file_info[1]] = Written(lines)]
                              /\ dirty' = FALSE
                              /\ synced' = Texts(lines)
                         ELSE UNCHANGED <<disk, dirty, synced>>
                    /\ UNCHANGED <<command_bar, prompt_type>>
               ELSE /\ command_bar' = <<>>
                    /\ prompt_type' = "Save"
                    /\ UNCHANGED <<disk, dirty, synced>>
       ELSE UNCHANGED <<quit_times, disk, dirty, synced, command_bar, prompt_type>>
    /\ ed_last' = Kept(kept, "Save")
    /\ ed_run' = 0
    /\ UNCHANGED <<lines, file_info, text_location, scroll_offset, search_info,
                   terminal_size, should_quit>>
    /\ ed_frame

\* View::dismiss_search: the cursor and the scroll offset afterwards
dismiss_search(ls, loc, offset, info, size) ==
    IF info # None
    THEN [text_location |-> info[1].prev_location,
          scroll_offset |-> scroll_text_location_into_view(ls, info[1].prev_location,
                                                           info[1].prev_scroll_offset, size)]
    ELSE [text_location |-> loc, scroll_offset |-> offset]

\* System(Dismiss): nothing but the reset in normal mode, the end of the prompt
\* at a prompt, with View::dismiss_search in search mode
process_dismiss(kept) ==
    /\ Running
    /\ CASE prompt_type = "None" ->
              /\ quit_times' = reset_quit_times(quit_times)
              /\ UNCHANGED <<text_location, scroll_offset, search_info, command_bar,
                             prompt_type>>
         [] prompt_type = "Save" ->
              /\ command_bar' = <<>>
              /\ prompt_type' = "None"
              /\ UNCHANGED <<quit_times, text_location, scroll_offset, search_info>>
         [] prompt_type = "Search" ->
              LET back == dismiss_search(lines, text_location, scroll_offset, search_info,
                                         ViewSize(terminal_size))
              IN  /\ command_bar' = <<>>
                  /\ prompt_type' = "None"
                  /\ text_location' = back.text_location
                  /\ scroll_offset' = back.scroll_offset
                  /\ search_info' = None
                  /\ UNCHANGED quit_times
    /\ ed_last' = Kept(kept, "Dismiss")
    /\ ed_run' = 0
    /\ UNCHANGED <<lines, file_info, dirty, disk, synced, terminal_size, should_quit>>
    /\ ed_frame

\* Edit(command), the char of an Insert being one of alphabet in normal mode
\* and one of typed at a prompt: View::handle_edit_command in normal mode; at the Save prompt
\* InsertNewline saves under the typed name and the others edit the typed name;
\* at the Search prompt InsertNewline ends the search where it is and the
\* others edit the query and search for it from the cursor
process_edit(alphabet, typed, max_chars, max_lines, max_value, kept) ==
    /\ Running
    /\ \E command \in Edit,
          character \in IF prompt_type = "None" THEN alphabet ELSE typed :
          LET edited == IF prompt_type = "None"
                        THEN View_handle_edit_command(
                                 ViewOf(lines, text_location, dirty, scroll_offset),
                                 command, character, ViewSize(terminal_size))
                        ELSE ViewOf(lines, text_location, dirty, scroll_offset)
              value == CommandBar_handle_edit_command(command_bar, command, character)
              path == PathOf(command_bar)
          IN  \E v \in {edited} :
              /\ (prompt_type = "None" /\ command = "Insert") =>
                    TotalChars(lines) < max_chars
              /\ prompt_type = "None" => Len(v.lines) <= max_lines
              /\ (prompt_type # "None" /\ command = "Insert") =>
                    Len(command_bar) < max_value
              /\ CASE prompt_type = "None" ->
                        /\ quit_times' = reset_quit_times(quit_times)
                        /\ lines' = v.lines
                        /\ text_location' = v.text_location
                        /\ scroll_offset' = v.scroll_offset
                        /\ dirty' = v.dirty
                        /\ ed_last' = Kept(kept, "Edit")
                        /\ UNCHANGED <<file_info, disk, synced, search_info, command_bar,
                                       prompt_type>>
                   [] prompt_type = "Save" /\ command = "InsertNewline" ->
                        /\ \E created \in BOOLEAN :
                              IF created /\ path # None
                              THEN /\ disk' = [disk EXCEPT ![path[1]] = Written(lines)]
                                   /\ file_info' = path
                                   /\ dirty' = FALSE
                                   /\ synced' = Texts(lines)
                              ELSE UNCHANGED <<disk, file_info, dirty, synced>>
                        /\ command_bar' = <<>>
                        /\ prompt_type' = "None"
                        /\ ed_last' = Kept(kept, "Edit")
                        /\ UNCHANGED <<quit_times, lines, text_location, scroll_offset,
                                       search_info>>
                   [] prompt_type = "Save" /\ command # "InsertNewline" ->
                        /\ command_bar' = value
                        /\ ed_last' = Kept(kept, "Edit")
                        /\ UNCHANGED <<quit_times, lines, text_location, scroll_offset, dirty,
                                       file_info, disk, synced, search_info, prompt_type>>
                   [] prompt_type = "Search" /\ command = "InsertNewline" ->
                        /\ command_bar' = <<>>
                        /\ prompt_type' = "None"
                        /\ search_info' = None
                        /\ ed_last' = Kept(kept, "Edit")
                        /\ UNCHANGED <<quit_times, lines, text_location, scroll_offset, dirty,
                                       file_info, disk, synced>>
                   [] prompt_type = "Search" /\ command # "InsertNewline" ->
                        LET query == Some(value)
                            searched == search_in_direction(
                                            ViewOf(lines, text_location, dirty, scroll_offset),
                                            query, text_location, "Forward",
                                            ViewSize(terminal_size))
                        IN  /\ command_bar' = value
                            /\ \E debug_assertions \in BOOLEAN, found \in {searched} :
                               IF debug_assertions
                                    /\ search_in_direction_panics(lines, query, text_location,
                                                                  "Forward")
                               THEN /\ ed_last' = [op |-> "panic"]
                                    /\ UNCHANGED <<search_info, text_location, scroll_offset>>
                               ELSE /\ search_info' =
                                          IF search_info # None
                                          THEN Some([search_info[1] EXCEPT !.query = query])
                                          ELSE search_info
                                    /\ text_location' = found.text_location
                                    /\ scroll_offset' = found.scroll_offset
                                    /\ ed_last' = Kept(kept, "Edit")
                            /\ UNCHANGED <<quit_times, lines, dirty, file_info, disk, synced,
                                           prompt_type>>
    /\ ed_run' = 0
    /\ UNCHANGED <<terminal_size, should_quit>>
    /\ ed_frame

\* Move(command): View::handle_move_command in normal mode, ignored at the Save
\* prompt; at the Search prompt Right and Down are View::search_next, Up and
\* Left View::search_prev and the others are ignored
process_move(kept) ==
    /\ Running
    /\ \E command \in Move :
          LET query == IF search_info = None THEN None ELSE search_info[1].query
              direction == IF command \in {"Right", "Down"} THEN "Forward" ELSE "Backward"
              from == IF direction = "Forward" THEN search_next_from(text_location, query)
                      ELSE text_location
              v == View_handle_move_command(
                       ViewOf(lines, text_location, dirty, scroll_offset), command,
                       ViewSize(terminal_size))
              searched == search_in_direction(
                              ViewOf(lines, text_location, dirty, scroll_offset), query,
                              from, direction, ViewSize(terminal_size))
          IN  CASE prompt_type = "None" ->
                     \E moved \in {v} :
                        /\ quit_times' = reset_quit_times(quit_times)
                        /\ text_location' = moved.text_location
                        /\ scroll_offset' = moved.scroll_offset
                        /\ ed_last' = Kept(kept, "Move")
                [] prompt_type = "Save" ->
                     /\ ed_last' = Kept(kept, "Move")
                     /\ UNCHANGED <<quit_times, text_location, scroll_offset>>
                [] prompt_type = "Search" ->
                     /\ IF command \notin {"Right", "Down", "Up", "Left"}
                        THEN /\ ed_last' = Kept(kept, "Move")
                             /\ UNCHANGED <<text_location, scroll_offset>>
                        ELSE \E debug_assertions \in BOOLEAN, found \in {searched} :
                             IF debug_assertions
                                  /\ search_in_direction_panics(lines, query, from, direction)
                             THEN /\ ed_last' = [op |-> "panic"]
                                  /\ UNCHANGED <<text_location, scroll_offset>>
                             ELSE /\ text_location' = found.text_location
                                  /\ scroll_offset' = found.scroll_offset
                                  /\ ed_last' = Kept(kept, "Move")
                     /\ UNCHANGED quit_times
    /\ ed_run' = 0
    /\ UNCHANGED <<lines, file_info, dirty, disk, synced, search_info, command_bar,
                   prompt_type, terminal_size, should_quit>>
    /\ ed_frame

\* the commands of a session in which the screen is not looked at
ed_unobserved == UNCHANGED screen

\* the command just processed is kept
Recorded == TRUE

ed_resize == process_resize(Sizes, Recorded) /\ ed_unobserved

ed_quit == process_quit(Recorded) /\ ed_unobserved

ed_search == process_search(Recorded) /\ ed_unobserved

ed_save == process_save(Recorded) /\ ed_unobserved

ed_dismiss == process_dismiss(Recorded) /\ ed_unobserved

ed_edit ==
    process_edit({"f"}, {"f"}, EdMaxChars, EdMaxLines, EdMaxValue, Recorded) /\ ed_unobserved

ed_move == process_move(Recorded) /\ ed_unobserved

\* View::draw(origin_row): the lines the Highlighter was given (the keys of
\* Highlighter.highlights) and, for each row that shows a line, the line and
\* whether Highlighter::get_annotations has annotations for it
View_draw(ls, offset, size, origin_row) ==
    LET end_y == origin_row + size.height
        highlights == {idx \in 0..(end_y - 1) : idx < Len(ls)}
        line_idx(current_row) == SatSub(current_row, origin_row) + offset.row
    IN  [highlights |-> highlights,
         rows |-> [current_row \in {r \in origin_row..(end_y - 1) : line_idx(r) < Len(ls)} |->
                      [line_idx |-> line_idx(current_row),
                       range |-> [start |-> offset.col, end |-> offset.col + size.width],
                       annotated |-> line_idx(current_row) \in highlights]]]

\* Editor::refresh_screen at a terminal that is not empty: the View drawn when
\* there are more than two rows, and the caret
Screen(ls, loc, offset, mode, value, size) ==
    [view |-> IF size.height > 2 THEN Some(View_draw(ls, offset, ViewSize(size), 0))
              ELSE None,
     caret |-> IF mode # "None"
               THEN Position(caret_position_col(mode, value, size.width),
                             SatSub(size.height, 1))
               ELSE caret_position(ls, loc, offset),
     size |-> size]

\* Editor::refresh_screen, which Editor::run calls before it reads an event
refresh_screen ==
    /\ Running
    /\ terminal_size.height # 0
    /\ terminal_size.width # 0
    /\ screen' = Some(Screen(lines, text_location, scroll_offset, prompt_type,
                             command_bar, terminal_size))
    /\ UNCHANGED <<buf_vars, text_location, scroll_offset, search_info, command_bar,
                   prompt_type, terminal_size, should_quit, quit_times, ed_last, ed_run>>
    /\ ed_frame

\* the commands of a session in which the screen is looked at: a command
\* makes the screen drawn before it a thing of the past
view_observed == screen' = None

\* nothing is kept of the command just processed
Unrecorded == FALSE

view_resize == process_resize(ViewSizes, Unrecorded) /\ view_observed

screen_resize == process_resize(ScreenSizes, Unrecorded) /\ view_observed

view_search == process_search(Unrecorded) /\ view_observed

view_save == process_save(Unrecorded) /\ view_observed

view_dismiss == process_dismiss(Unrecorded) /\ view_observed

view_edit ==
    process_edit(ViewAlphabet, ViewAlphabet, ViewMaxChars, ViewMaxLines, ViewMaxValue,
                 Unrecorded)
       /\ view_observed

\* the same with a wide blank the only char typed at a prompt
screen_edit ==
    process_edit(ViewAlphabet, {"ispace"}, ViewMaxChars, ViewMaxLines, ViewMaxValue,
                 Unrecorded)
       /\ view_observed

view_move == process_move(Unrecorded) /\ view_observed
(***************************************************************************)
(* Specifications                                                          *)
(***************************************************************************)
vars == <<as_vars, it_vars, line_vars, buf_vars, ed_vars>>

\* the parts of the state a specification does not use
NoAnnotatedString ==
    /\ as_string = <<>>
    /\ as_annotations = <<>>
    /\ as_last = NoCall
    /\ it_state = "idle"
    /\ it_current_idx = 0
    /\ it_parts = <<>>

NoLine == line = Line_default /\ line_last = NoCall

\* Buffer::default
BufferDefault ==
    /\ lines = <<>>
    /\ file_info = None
    /\ dirty = FALSE
    /\ buf_last = NoCall
    /\ synced = <<>>

NoBuffer == BufferDefault /\ disk = [f \in Paths |-> Absent]

\* Editor::default
EditorDefault ==
    /\ text_location = Location(0, 0)
    /\ search_info = None
    /\ command_bar = <<>>
    /\ prompt_type = "None"
    /\ should_quit = FALSE
    /\ quit_times = 0
    /\ ed_last = NoCall
    /\ ed_run = 0
    /\ screen = None

NoEditor ==
    /\ EditorDefault
    /\ terminal_size = Size(0, 0)
    /\ scroll_offset = Position(0, 0)

\* AnnotatedString::from(text), then add_annotation and iteration
InitIter ==
    /\ as_string \in StringsUpTo({"a", "acute"}, IterMaxLen)
    /\ as_annotations = <<>>
    /\ as_last = NoCall
    /\ it_state = "idle"
    /\ it_current_idx = 0
    /\ it_parts = <<>>
    /\ NoLine
    /\ NoBuffer
    /\ NoEditor

add_annotation_iter == add_annotation(AnnotationType, IterMaxAnn)

NextIter == add_annotation_iter \/ into_iter \/ next \/ drop_iter

SpecIter == InitIter /\ [][NextIter]_vars

\* AnnotatedString::from(text), then add_annotation and replace
InitRepl ==
    /\ as_string \in StringsUpTo({"a", "acute"}, ReplMaxLen)
    /\ as_annotations = <<>>
    /\ as_last = NoCall
    /\ it_state = "idle"
    /\ it_current_idx = 0
    /\ it_parts = <<>>
    /\ NoLine
    /\ NoBuffer
    /\ NoEditor

add_annotation_repl == add_annotation({"Match"}, ReplMaxAnn)

NextRepl == add_annotation_repl \/ replace \/ forget_call

SpecRepl == InitRepl /\ [][NextRepl]_vars

\* AnnotatedString::from(text) and at most one add_annotation, then one replace
InitReplOnce ==
    /\ as_string \in StringsUpTo({"a", "acute"}, OnceMaxLen)
    /\ as_annotations \in {<<>>} \cup
          {<<Annotation("Match", s, e)>> :
              s \in ByteIndices(as_string), e \in ByteIndices(as_string)}
    /\ \A i \in 1..Len(as_annotations) :
          as_annotations[i].start_byte_idx <= as_annotations[i].end_byte_idx
    /\ as_last = NoCall
    /\ it_state = "idle"
    /\ it_current_idx = 0
    /\ it_parts = <<>>
    /\ NoLine
    /\ NoBuffer
    /\ NoEditor

once_replace == replace_within(OnceMaxLen, OnceMaxNew)

NextReplOnce == once_replace

SpecReplOnce == InitReplOnce /\ [][NextReplOnce]_vars

\* Line::from(text), then insert_char and delete
InitLine ==
    /\ NoAnnotatedString
    /\ line \in {Line_from(s) : s \in StringsUpTo({"a", "acute"}, LineMaxLen)}
    /\ line_last = NoCall
    /\ NoBuffer
    /\ NoEditor

NextLine == line_insert_char \/ line_delete

SpecLine == InitLine /\ [][NextLine]_vars

\* Line::from(text), then every editing operation of Line
NextLineOps ==
    \/ line_insert_char \/ line_append_char \/ line_delete \/ line_delete_last
    \/ line_append \/ line_split

SpecLineOps == InitLine /\ [][NextLineOps]_vars

\* Line::from(text), or Line::from("\r\n") and insert_char('\n', 1), then one
\* search
InitLineSearch ==
    /\ NoAnnotatedString
    /\ line \in {Line_from(s) : s \in StringsUpTo({"a", "acute"}, SearchMaxChars)}
                \cup {Line_insert_char(Line_from(<<"CR", "LF">>), "LF", 1)}
    /\ line_last = NoCall
    /\ NoBuffer
    /\ NoEditor

NextLineSearch == line_search_forward \/ line_search_backward \/ line_find_all

SpecLineSearch == InitLineSearch /\ [][NextLineSearch]_vars

\* Line::from(text), then width or width_until
InitWidth ==
    /\ NoAnnotatedString
    /\ line \in {Line_from(s) : s \in StringsUpTo({"a", "acute", "wide", "ispace"}, WidthMaxLen)}
    /\ line_last = NoCall
    /\ NoBuffer
    /\ NoEditor

NextWidth == line_width \/ line_width_until

SpecWidth == InitWidth /\ [][NextWidth]_vars

\* Line::from(text), then get_annotated_visible_substr
InitVisible ==
    /\ NoAnnotatedString
    /\ line \in {Line_from(s) : s \in StringsUpTo({"a", "acute", "wide", "ispace"}, VisibleMaxLen)}
    /\ line_last = NoCall
    /\ NoBuffer
    /\ NoEditor

NextVisible == line_get_annotated_visible_substr

SpecVisible == InitVisible /\ [][NextVisible]_vars

\* an AnnotatedString under one replace, or a Line whose visible part is taken
InitInserted == InitReplOnce \/ InitVisible

NextInserted == once_replace \/ line_get_annotated_visible_substr

SpecInserted == InitInserted /\ [][NextInserted]_vars

\* Buffer::default, then insert_char, delete and insert_newline
InitEdit == NoAnnotatedString /\ NoLine /\ NoBuffer /\ NoEditor

edit_insert_char == buf_insert_char({"a", "acute"}, EditMaxChars, EditMaxLines)
edit_insert_newline == buf_insert_newline(EditMaxLines)

NextEdit == edit_insert_char \/ buf_delete \/ edit_insert_newline

SpecEdit == InitEdit /\ [][NextEdit]_vars

\* Buffer::default, then the edits at Locations inside and outside the buffer
NextOutside ==
    \/ edit_insert_char \/ buf_delete \/ edit_insert_newline
    \/ buf_insert_char_outside \/ buf_insert_newline_outside \/ buf_delete_outside

SpecOutside == InitEdit /\ [][NextOutside]_vars

\* Editor::new: Editor::default, the size of the terminal, and the file named on
\* the command line loaded when there is one that can be read
InitEditor ==
    /\ NoAnnotatedString
    /\ NoLine
    /\ EditorDefault
    /\ terminal_size \in Sizes
    /\ scroll_offset = scroll_text_location_into_view(<<>>, Location(0, 0), Position(0, 0),
                                                      ViewSize(terminal_size))
    /\ disk \in [Paths -> {Absent, <<"f", "LF">>}]
    /\ buf_last = NoCall
    /\ dirty = FALSE
    /\ \/ /\ lines = <<>>
          /\ file_info = None
          /\ synced = <<>>
       \/ \E file_name \in Paths :
             /\ disk[file_name] # Absent
             /\ lines = [i \in 1..Len(str_lines(disk[file_name])) |->
                            Line_from(str_lines(disk[file_name])[i])]
             /\ file_info = Some(file_name)
             /\ synced = str_lines(disk[file_name])

NextEditor ==
    \/ ed_resize \/ ed_quit \/ ed_search \/ ed_save \/ ed_dismiss \/ ed_edit \/ ed_move

SpecEditor == InitEditor /\ [][NextEditor]_vars

\* Editor::new at a terminal of one of sizes, without a file
EditorNew(sizes) ==
    /\ NoAnnotatedString
    /\ NoLine
    /\ EditorDefault
    /\ terminal_size \in sizes
    /\ scroll_offset = scroll_text_location_into_view(<<>>, Location(0, 0), Position(0, 0),
                                                      ViewSize(terminal_size))
    /\ disk = [p \in Paths |-> Absent]
    /\ buf_last = NoCall
    /\ dirty = FALSE
    /\ lines = <<>>
    /\ file_info = None
    /\ synced = <<>>

\* Editor::new, then the commands that reach the View
InitView == EditorNew(ViewSizes)

NextView == view_resize \/ view_search \/ view_dismiss \/ view_edit \/ view_move

SpecView == InitView /\ [][NextView]_vars

\* Editor::new, then every command but Quit with the screen refreshed
InitScreen == EditorNew(ScreenSizes)

NextScreen ==
    \/ screen_resize \/ view_search \/ view_save \/ view_dismiss \/ screen_edit \/ view_move
    \/ refresh_screen

SpecScreen == InitScreen /\ [][NextScreen]_vars

\* Editor::new with a file of up to DrawMaxLines lines, then moves, resizes
\* and the screen refreshed
DrawnTexts ==
    UNION {[1..k -> {<<>>, <<"ispace">>}] : k \in 0..DrawMaxLines}

InitDraw ==
    /\ NoAnnotatedString
    /\ NoLine
    /\ EditorDefault
    /\ terminal_size \in ViewSizes
    /\ scroll_offset = scroll_text_location_into_view(<<>>, Location(0, 0), Position(0, 0),
                                                      ViewSize(terminal_size))
    /\ \E texts \in DrawnTexts :
          /\ lines = [i \in 1..Len(texts) |-> Line_from(texts[i])]
          /\ synced = texts
          /\ disk = [p \in Paths |-> IF p = "f" THEN Written(lines) ELSE Absent]
    /\ file_info = Some("f")
    /\ buf_last = NoCall
    /\ dirty = FALSE

NextDraw == view_resize \/ view_move \/ refresh_screen

SpecDraw == InitDraw /\ [][NextDraw]_vars

\* Buffer::default and a file on disk, then load, save, save_as and edits
InitFile ==
    /\ NoAnnotatedString
    /\ NoLine
    /\ BufferDefault
    /\ NoEditor
    /\ disk \in [Paths -> {Absent, <<>>, <<"a">>, <<"a", "LF">>, <<"a", "CR", "LF">>,
                          <<"CR", "CR", "LF">>}]

file_insert_char == buf_insert_char({"a", "CR"}, FileMaxChars, FileMaxLines)
file_insert_newline == buf_insert_newline(FileMaxLines)

NextFile ==
    \/ buf_load \/ buf_save \/ buf_save_as
    \/ file_insert_char \/ buf_delete \/ file_insert_newline

SpecFile == InitFile /\ [][NextFile]_vars

\* Buffer::default and a file on disk, then load, save, save_as and edits
\* with one character
InitSync ==
    /\ NoAnnotatedString
    /\ NoLine
    /\ BufferDefault
    /\ NoEditor
    /\ disk \in [Paths -> {Absent, <<"a", "LF">>}]

sync_insert_char == buf_insert_char({"a"}, FileMaxChars, FileMaxLines)

NextSync ==
    \/ buf_load \/ buf_save \/ buf_save_as
    \/ sync_insert_char \/ buf_delete \/ file_insert_newline

SpecSync == InitSync /\ [][NextSync]_vars

\* a Buffer as loaded, then one search
SearchBuffers ==
    {ls \in UNION {[1..k -> {Line_from(s) : s \in StringsUpTo({"a", "acute"}, SearchMaxChars)}]
                     : k \in 0..SearchMaxLines} :
        TotalChars(ls) <= SearchMaxChars}

InitSearch ==
    /\ NoAnnotatedString
    /\ NoLine
    /\ lines \in SearchBuffers
    /\ file_info = Some("f")
    /\ dirty = FALSE
    /\ disk = [f \in Paths |-> Absent]
    /\ buf_last = NoCall
    /\ synced = Texts(lines)
    /\ NoEditor

NextSearch == buf_search_forward \/ buf_search_backward

SpecSearch == InitSearch /\ [][NextSearch]_vars

(***************************************************************************)
(* Properties of AnnotatedString and its iterator                          *)
(***************************************************************************)
\* the bytes of a string, each byte named by its char and its place in the char
RECURSIVE Bytes(_)
Bytes(s) ==
    IF s = <<>> THEN <<>>
    ELSE [k \in 1..ByteLen(Head(s)) |-> <<Head(s), k>>] \o Bytes(Tail(s))

RECURSIVE ConcatParts(_)
ConcatParts(ps) == IF ps = <<>> THEN <<>> ELSE Head(ps).string \o ConcatParts(Tail(ps))

\* the byte at which the i-th yielded part starts
PartStart(ps, i) == StrLen(ConcatParts(SubSeq(ps, 1, i - 1)))

C2_LastAddedWins ==
    \A i \in 1..Len(it_parts) :
        \A b \in PartStart(it_parts, i) ..
                  (PartStart(it_parts, i) + StrLen(it_parts[i].string) - 1) :
            Covering(as_annotations, b) # {} =>
                it_parts[i].annotation_type =
                    as_annotations[LastOf(Covering(as_annotations, b))].annotation_type

\* C3: after replace(start, end, new) with start <= min(end, len) the text is
\* old[..start] + new + old[min(end, len)..], byte for byte.
C3_ReplaceText ==
    (as_last.op = "replace"
        /\ as_last.start <= Min(as_last.end, StrLen(as_last.string))) =>
        Bytes(as_string) =
            SubSeq(Bytes(as_last.string), 1, as_last.start)
                \o Bytes(as_last.new_string)
                \o SubSeq(Bytes(as_last.string),
                          Min(as_last.end, StrLen(as_last.string)) + 1,
                          StrLen(as_last.string))

\* a replace of a non-empty range whose end was clipped, by a non-empty string
C3_Witness ==
    /\ as_last.op = "replace"
    /\ as_last.start < StrLen(as_last.string)
    /\ as_last.end > StrLen(as_last.string)
    /\ as_last.new_string # <<>>
    /\ as_string # as_last.string

\* C4: after a replace call every annotation held satisfies
\* 0 <= start < end <= length of the text.
C4_AnnotationsValidAfterReplace ==
    as_last.op = "replace" =>
        \A i \in 1..Len(as_annotations) :
            /\ 0 <= as_annotations[i].start_byte_idx
            /\ as_annotations[i].start_byte_idx < as_annotations[i].end_byte_idx
            /\ as_annotations[i].end_byte_idx <= StrLen(as_string)

\* C5: after replace(start, end, new) every annotation that covered text and
\* started at or after the clipped end of the replaced range is held with start
\* and end both moved by delta = len(new) - (end - start), and covers the same
\* bytes as before.
C5_ShiftedByDelta ==
    as_last.op = "replace" =>
        LET old == as_last.string
            s == as_last.start
            e == Min(as_last.end, StrLen(old))
            delta == StrLen(as_last.new_string) - (e - s)
        IN  s <= e =>
                \A i \in 1..Len(as_last.annotations) :
                    LET a == as_last.annotations[i]
                        b == Annotation(a.annotation_type, a.start_byte_idx + delta,
                                        a.end_byte_idx + delta)
                    IN  (a.start_byte_idx >= e
                            /\ a.start_byte_idx < a.end_byte_idx
                            /\ a.start_byte_idx < StrLen(old)) =>
                            /\ \E j \in 1..Len(as_annotations) : as_annotations[j] = b
                            /\ SubSeq(Bytes(as_string), b.start_byte_idx + 1,
                                      Min(b.end_byte_idx, StrLen(as_string)))
                               = SubSeq(Bytes(old), a.start_byte_idx + 1,
                                        Min(a.end_byte_idx, StrLen(old)))

\* a replace that changed the length of a non-empty range lying before an
\* annotation that covers text
C5_Witness ==
    /\ as_last.op = "replace"
    /\ as_last.start < as_last.end
    /\ as_last.end <= StrLen(as_last.string)
    /\ StrLen(as_last.new_string) # as_last.end - as_last.start
    /\ \E i \in 1..Len(as_last.annotations) :
          /\ as_last.annotations[i].start_byte_idx >= as_last.end
          /\ as_last.annotations[i].start_byte_idx < as_last.annotations[i].end_byte_idx
          /\ as_last.annotations[i].start_byte_idx < StrLen(as_last.string)
    /\ as_annotations # <<>>
    /\ as_annotations # as_last.annotations

RunAt(l, q, g, n) == Concat([i \in 1..n |-> l.fragments[g + i].grapheme]) = q

\* the grapheme indices g >= col at which a run of fragments of l is exactly q
MatchesFrom(l, q, col) ==
    {g \in col..(grapheme_count(l) - 1) :
        \E n \in 1..(grapheme_count(l) - g) : RunAt(l, q, g, n)}

\* the grapheme indices at which a run of fragments of l is exactly q and ends
\* at or before grapheme index bound
MatchesBefore(l, q, bound) ==
    {g \in 0..(bound - 1) : \E n \in 1..(bound - g) : RunAt(l, q, g, n)}

Smallest(S) == CHOOSE x \in S : \A y \in S : x <= y
Greatest(S) == CHOOSE x \in S : \A y \in S : x >= y

\* the first match met when the height()+1 lines from.line_idx, from.line_idx+1,
\* ..., wrapping, ..., from.line_idx are scanned forward, the first of them from
\* column from.grapheme_idx and the others from column 0
FirstForward(ls, q, from) ==
    LET n == Len(ls)
        visit(i) == (from.line_idx + i - 1) % n
        found(i) == MatchesFrom(ls[visit(i) + 1], q, IF i = 1 THEN from.grapheme_idx ELSE 0)
        hits == {i \in 1..(n + 1) : found(i) # {}}
    IN  IF hits = {} THEN None
        ELSE Some(Location(visit(Smallest(hits)), Smallest(found(Smallest(hits)))))

\* the mirror: the lines from.line_idx, from.line_idx-1, ..., wrapping, ...,
\* from.line_idx scanned from their end, the first of them from before column
\* from.grapheme_idx
FirstBackward(ls, q, from) ==
    LET n == Len(ls)
        visit(i) == (from.line_idx + 2 * n - (i - 1)) % n
        found(i) == MatchesBefore(ls[visit(i) + 1], q,
                        IF i = 1 THEN from.grapheme_idx
                        ELSE grapheme_count(ls[visit(i) + 1]))
        hits == {i \in 1..(n + 1) : found(i) # {}}
    IN  IF hits = {} THEN None
        ELSE Some(Location(visit(Smallest(hits)), Greatest(found(Smallest(hits)))))

NoLineContains(ls, q) == \A i \in 1..Len(ls) : MatchesFrom(ls[i], q, 0) = {}

\* C7: search_forward(query, from), for a non-empty query and a location inside
\* the buffer, returns the first match met scanning line from.line_idx from
\* column from.grapheme_idx, then the following lines from column 0, wrapping,
\* and last line from.line_idx again from column 0; it returns none exactly when
\* no line contains the query.
C7_SearchForwardFirstMatch ==
    (buf_last.op = "search_forward" /\ buf_last.query # <<>>) =>
        /\ buf_last.result = FirstForward(lines, buf_last.query, buf_last.from)
        /\ buf_last.result = None <=> NoLineContains(lines, buf_last.query)

\* C8: search_backward(query, from), for a non-empty query and a location inside
\* the buffer, returns the first match met scanning line from.line_idx before
\* column from.grapheme_idx, then the preceding lines from their end, wrapping,
\* and last line from.line_idx again from its end; it returns none exactly when
\* no line contains the query.
C8_SearchBackwardFirstMatch ==
    (buf_last.op = "search_backward" /\ buf_last.query # <<>>) =>
        /\ buf_last.result = FirstBackward(lines, buf_last.query, buf_last.from)
        /\ buf_last.result = None <=> NoLineContains(lines, buf_last.query)

\* C9: delete(at) with at.grapheme_idx at or past the end of line at.line_idx:
\* when a following line exists its text is appended to line at.line_idx, it is
\* removed, height() goes down by one and the other lines keep text and order;
\* on the last line nothing changes.
C9_DeleteAtLineEndMerges ==
    (buf_last.op = "delete"
        /\ buf_last.at.line_idx < Len(buf_last.before)
        /\ buf_last.at.grapheme_idx >=
              Len(graphemes(buf_last.before[buf_last.at.line_idx + 1]))) =>
        LET before == buf_last.before
            k == buf_last.at.line_idx + 1
        IN  IF k < Len(before)
            THEN /\ Len(lines) = Len(before) - 1
                 /\ lines[k].string = before[k] \o before[k + 1]
                 /\ \A i \in 1..(k - 1) : lines[i].string = before[i]
                 /\ \A i \in (k + 2)..Len(before) : lines[i - 1].string = before[i]
            ELSE Texts(lines) = before

\* a delete at the end of a line that is followed by a non-empty line, with a
\* line before and a line after the two
C9_Witness ==
    /\ buf_last.op = "delete"
    /\ Len(buf_last.before) >= 3
    /\ buf_last.at.line_idx = 1
    /\ buf_last.at.grapheme_idx >= Len(graphemes(buf_last.before[2]))
    /\ buf_last.before[2] # <<>>
    /\ buf_last.before[3] # <<>>
    /\ Len(lines) = Len(buf_last.before) - 1

\* a delete one column past the end of a line that is followed by a line
C9_WitnessPast ==
    /\ buf_last.op = "delete"
    /\ buf_last.at.line_idx + 1 < Len(buf_last.before)
    /\ buf_last.at.grapheme_idx >
          Len(graphemes(buf_last.before[buf_last.at.line_idx + 1]))

\* C10: a successful save() immediately followed by load() of the same path gives
\* the line texts that were saved.
C10_SaveLoadRoundTrip ==
    buf_last.op = "save_load" => Texts(lines) = buf_last.saved

\* C11: save() on a buffer with no associated path fails: it returns a failure
\* to the caller and leaves the modified flag as it was.
C11_SaveWithoutPathFails ==
    /\ (buf_last.op = "save" /\ buf_last.path = None) =>
            (buf_last.result = "Err" /\ dirty = buf_last.was_dirty)
    /\ buf_last.op # "panic"

\* C12: in every state reachable by load, save, save_as, insert_char, delete and
\* insert_newline the modified flag is true exactly when the line texts differ
\* from the line texts at the last successful load or save.
C12_DirtyIffChanged == dirty <=> (Texts(lines) # synced)

\* C12 as amended: whenever the modified flag is false the line texts are the
\* line texts at the last load or save that returned success (every edit that
\* changes a line sets the flag, and only a successful load or save clears it).
C12_CleanMeansSynced == ~dirty => (Texts(lines) = synced)

\* a modified buffer with text has just been saved to its file and is unmodified
\* again
C12_Witness ==
    /\ buf_last.op = "save"
    /\ buf_last.result = "Ok"
    /\ buf_last.path # None
    /\ buf_last.was_dirty
    /\ ~dirty
    /\ Texts(lines) # <<>>
    /\ Texts(lines) = synced

\* C15: insert_char, insert_newline and delete at a Location outside the buffer
\* (at.line_idx > height(), for delete at.line_idx >= height(), or
\* at.grapheme_idx past the grapheme count of the line for insert_char and
\* insert_newline) do not fail and leave the lines and the modified flag as
\* they were.
C15_OutOfRangeNoOp ==
    /\ buf_last.op = "outside" => (lines = buf_last.before /\ dirty = buf_last.was_dirty)
    /\ buf_last.op # "panic"

\* the text of the graphemes i .. j - 1 of line l
GraphemesText(l, i, j) ==
    Concat([k \in 1..(Min(j, grapheme_count(l)) - i) |-> l.fragments[i + k].grapheme])

\* C21: Buffer::insert_newline(at) with at.line_idx = height() appends one empty
\* line; with at.line_idx < height() the addressed line keeps the text before
\* grapheme at.grapheme_idx and a line with the rest of its text follows it
\* (an empty line, the addressed line unchanged, at or past the end of the
\* line). The height grows by one, the concatenation of the texts is unchanged,
\* the other lines keep content and order and the modified flag is set.
C21_InsertNewlineSplits ==
    buf_last.op = "insert_newline" =>
        LET b == buf_last.before
            l == buf_last.at.line_idx
            g == buf_last.at.grapheme_idx
        IN  /\ Len(lines) = Len(b) + 1
            /\ Concat(Texts(lines)) = Concat(Texts(b))
            /\ dirty
            /\ IF l = Len(b)
               THEN /\ SubSeq(lines, 1, Len(b)) = b
                    /\ lines[Len(b) + 1].string = <<>>
               ELSE /\ SubSeq(lines, 1, l) = SubSeq(b, 1, l)
                    /\ SubSeq(lines, l + 3, Len(lines)) = SubSeq(b, l + 2, Len(b))
                    /\ lines[l + 1].string = GraphemesText(b[l + 1], 0, g)
                    /\ lines[l + 2].string
                          = GraphemesText(b[l + 1], g, grapheme_count(b[l + 1]))
                    /\ g >= grapheme_count(b[l + 1]) =>
                          (lines[l + 1] = b[l + 1] /\ lines[l + 2].string = <<>>)

\* a line with a cluster of two characters has been split between two of its
\* clusters, with a line after it
C21_Witness ==
    /\ buf_last.op = "insert_newline"
    /\ buf_last.at.line_idx + 1 < Len(buf_last.before)
    /\ buf_last.at.grapheme_idx > 0
    /\ lines[buf_last.at.line_idx + 2].string # <<>>
    /\ Len(lines[buf_last.at.line_idx + 1].string)
          > grapheme_count(lines[buf_last.at.line_idx + 1])

\* insert_newline one past the end of a line that has text
C21_WitnessPast ==
    /\ buf_last.op = "insert_newline"
    /\ buf_last.at.line_idx < Len(buf_last.before)
    /\ buf_last.before[buf_last.at.line_idx + 1].string # <<>>
    /\ buf_last.at.grapheme_idx
          > grapheme_count(buf_last.before[buf_last.at.line_idx + 1])

(***************************************************************************)
(* Properties of Line                                                      *)
(***************************************************************************)
\* the fragments of l are the grapheme clusters of its text: their texts
\* concatenate to the text, each start is the byte offset of its text, no
\* cluster can be cut and no two neighbours belong to one cluster
FragmentsReflectText(l) ==
    LET f == l.fragments
        g(i) == f[i].grapheme
    IN  /\ Concat([i \in 1..Len(f) |-> g(i)]) = l.string
        /\ \A i \in 1..Len(f) :
              /\ f[i].start = StrLen(Concat([j \in 1..(i - 1) |-> g(j)]))
              /\ g(i) # <<>>
              /\ \A k \in 1..(Len(g(i)) - 1) : NoBreak(g(i)[k], g(i)[k + 1])
        /\ \A i \in 1..(Len(f) - 1) : ~NoBreak(g(i)[Len(g(i))], g(i + 1)[1])

\* C13: after every Line operation (from, insert_char, append_char, delete,
\* delete_last, append, split, their no-op branches included) the fragment list
\* is the grapheme decomposition of the raw text: the fragments' texts
\* concatenate to it and each start is the byte offset of its grapheme.
C13_FragmentsReflectText ==
    /\ FragmentsReflectText(line)
    /\ line_last.op = "split" => FragmentsReflectText(line_last.returned)

\* a delete that removed a cluster and moved the start of a fragment
C13_Witness ==
    /\ line_last.op = "delete"
    /\ line.string # line_last.before.string
    /\ \E i \in 1..grapheme_count(line) :
          /\ i <= grapheme_count(line_last.before)
          /\ line.fragments[i].start # line_last.before.fragments[i].start

\* C14: search_forward(query, from_idx) and search_backward(query, from_idx)
\* return not found when query is the empty string, for every line and every
\* from_idx <= grapheme_count().
C14_EmptyQueryNotFound ==
    (line_last.op \in {"search_forward", "search_backward"} /\ line_last.query = <<>>) =>
        line_last.result = None

\* C17: search_forward(query, from_idx), for a non-empty query and from_idx <=
\* grapheme_count(), returns the smallest grapheme index g >= from_idx at which
\* a run of fragments concatenates exactly to query, and not found exactly
\* when there is no such g.
C17_SearchForwardSmallest ==
    (line_last.op = "search_forward" /\ line_last.query # <<>>) =>
        LET found == MatchesFrom(line, line_last.query, line_last.from)
        IN  line_last.result = IF found = {} THEN None ELSE Some(Smallest(found))

\* C18: search_backward(query, from_idx), for a non-empty query and from_idx <=
\* grapheme_count(), returns the greatest grapheme index g at which a run of
\* fragments concatenates exactly to query and ends at or before from_idx
\* (also when occurrences overlap), and not found exactly when there is none.
C18_SearchBackwardGreatest ==
    (line_last.op = "search_backward" /\ line_last.query # <<>>) =>
        LET found == MatchesBefore(line, line_last.query, line_last.from)
        IN  line_last.result = IF found = {} THEN None ELSE Some(Greatest(found))

\* the pair <<b, g>> is grapheme-aligned for query q in line l: b is the start
\* byte of fragment g and the fragments g .. g+k, k the number of grapheme
\* clusters of q, concatenate exactly to q
Aligned(l, q, b, g) ==
    LET k == Len(graphemes(q))
    IN  /\ g < grapheme_count(l)
        /\ l.fragments[g + 1].start = b
        /\ g + k <= grapheme_count(l)
        /\ Concat([i \in 1..k |-> l.fragments[g + i].grapheme]) = q

\* C19: every pair (b, g) returned by find_all(query, byte_range) is
\* grapheme-aligned: b lies inside the byte window, b is the start byte of
\* fragment g and the fragments g .. g+k concatenate exactly to query; the
\* same for the index returned by search_forward and search_backward. A
\* byte-level occurrence that begins or ends inside a cluster is not returned.
C19_FindAllAligned ==
    /\ line_last.op = "find_all" =>
          \A i \in 1..Len(line_last.result) :
             LET b == line_last.result[i][1]
                 g == line_last.result[i][2]
             IN  /\ line_last.start <= b
                 /\ b <= Min(line_last.end, StrLen(line.string))
                 /\ Aligned(line, line_last.query, b, g)
    /\ (line_last.op \in {"search_forward", "search_backward"}
            /\ line_last.result # None) =>
          \E b \in 0..StrLen(line.string) :
             Aligned(line, line_last.query, b, line_last.result[1])

\* the positions of annotation a: its start and its end
Positions == {"start_byte_idx", "end_byte_idx"}

\* C20 as stated: in replace(start, end, new) with a non-zero length delta,
\* every annotation position p with start <= p < end becomes the old end when
\* the new text is longer than the replaced range and the old start when it
\* is shorter.
C20_ClampedToBoundary ==
    as_last.op = "replace" =>
        LET old == as_last.string
            s == as_last.start
            e == Min(as_last.end, StrLen(old))
            new_len == StrLen(as_last.new_string)
        IN  (s <= e /\ new_len # e - s) =>
                \A i \in 1..Len(as_last.annotations), f \in Positions :
                    LET p == as_last.annotations[i][f]
                    IN  (s <= p /\ p < e) =>
                            as_last.adjusted[i][f] = IF new_len > e - s THEN e ELSE s

\* C20 amended: every annotation position p with start <= p < end is moved by
\* the length delta and stopped at the edited boundary: it becomes
\* min(old end, p + delta) when the new text is longer than the replaced range
\* and max(old start, p - delta) when it is shorter, delta the absolute
\* difference of the two lengths.
C20_ShiftedThenClamped ==
    as_last.op = "replace" =>
        LET old == as_last.string
            s == as_last.start
            e == Min(as_last.end, StrLen(old))
            new_len == StrLen(as_last.new_string)
        IN  (s <= e /\ new_len # e - s) =>
                \A i \in 1..Len(as_last.annotations), f \in Positions :
                    LET p == as_last.annotations[i][f]
                    IN  (s <= p /\ p < e) =>
                            as_last.adjusted[i][f] =
                                IF new_len > e - s
                                THEN Min(e, p + (new_len - (e - s)))
                                ELSE Max(s, p - ((e - s) - new_len))

\* a replace with a shorter text after which a position inside the replaced
\* range is not at the old start, and one with a longer text after which a
\* position inside the replaced range is not at the old end
C20_WitnessShorter ==
    /\ as_last.op = "replace"
    /\ StrLen(as_last.new_string) < Min(as_last.end, StrLen(as_last.string)) - as_last.start
    /\ \E i \in 1..Len(as_last.annotations), f \in Positions :
          /\ as_last.start <= as_last.annotations[i][f]
          /\ as_last.annotations[i][f] < Min(as_last.end, StrLen(as_last.string))
          /\ as_last.adjusted[i][f] > as_last.start

C20_WitnessLonger ==
    /\ as_last.op = "replace"
    /\ as_last.start <= Min(as_last.end, StrLen(as_last.string))
    /\ StrLen(as_last.new_string) > Min(as_last.end, StrLen(as_last.string)) - as_last.start
    /\ \E i \in 1..Len(as_last.annotations), f \in Positions :
          /\ as_last.start <= as_last.annotations[i][f]
          /\ as_last.annotations[i][f] < Min(as_last.end, StrLen(as_last.string))
          /\ as_last.adjusted[i][f] < Min(as_last.end, StrLen(as_last.string))

\* the sum of f over the first n fragments of line l
SumWidths(l, n, f(_)) ==
    LET sum[i \in 0..n] == IF i = 0 THEN 0 ELSE sum[i - 1] + f(l.fragments[i])
    IN  sum[n]

\* 1 for a cluster whose glyph width is 0 or 1 and 2 for a wider one
GlyphColumns(fragment) == IF StrWidth(fragment.grapheme) <= 1 THEN 1 ELSE 2

\* the same, but 1 for every cluster that is displayed as a replacement character
DisplayedColumns(fragment) ==
    IF fragment.replacement # None THEN 1 ELSE GlyphColumns(fragment)

\* width() and width_until(i) are the sums of f over all fragments and over the
\* fragments before index i
WidthIsSumOf(f(_)) ==
    /\ line_last.op = "width" =>
          line_last.result = SumWidths(line, grapheme_count(line), f)
    /\ line_last.op = "width_until" =>
          line_last.result
            = SumWidths(line, Min(line_last.grapheme_idx, grapheme_count(line)), f)

\* C22 as stated: width() is the sum over the grapheme clusters of 1 for a
\* cluster of glyph width 0 or 1 and 2 for a cluster of glyph width 2 or more,
\* width_until(i) the same sum over the fragments before index i; a replacement
\* character does not change the width class.
C22_WidthByGlyph == WidthIsSumOf(GlyphColumns)

\* C22 amended: a cluster that has a replacement character counts 1 whatever
\* its glyph width; every other cluster counts 1 for glyph width 0 or 1 and 2
\* for glyph width 2 or more.
C22_WidthByDisplay == WidthIsSumOf(DisplayedColumns)

\* the width of a line with an ordinary wide cluster and a replaced wide
\* cluster has been taken
C22_Witness ==
    /\ line_last.op = "width"
    /\ \E i, j \in 1..grapheme_count(line) :
          /\ line.fragments[i].replacement # None
          /\ StrWidth(line.fragments[i].grapheme) = 2
          /\ line.fragments[j].replacement = None
          /\ StrWidth(line.fragments[j].grapheme) = 2

\* "a", a wide character, "a": three clusters and width 4
C22_WitnessExample ==
    /\ line_last.op = "width"
    /\ line.string = <<"a", "wide", "a">>
    /\ grapheme_count(line) = 3
    /\ line_last.result = 4

\* the columns of fragment i of line l: it covers ColStart .. ColEnd - 1
ColStart(l, i) == Line_width_until(l, i - 1)
ColEnd(l, i) == Line_width_until(l, i)

\* a fragment as it is displayed: its replacement character when it has one
Displayed(fragment) ==
    IF fragment.replacement # None THEN fragment.replacement ELSE fragment.grapheme

\* the displayed fragments of l that lie fully inside the columns of range
InsideText(l, range) ==
    Concat([i \in 1..Len(l.fragments) |->
              IF ColStart(l, i) >= range.start /\ ColEnd(l, i) <= range.end
              THEN Displayed(l.fragments[i]) ELSE <<>>])

\* the text with a marker on the left when left is TRUE, on the right when right is
Clipped(l, range, left, right) ==
    (IF left THEN <<"ellipsis">> ELSE <<>>) \o InsideText(l, range)
        \o (IF right THEN <<"ellipsis">> ELSE <<>>)

\* l has a fragment that is, at least in part, left of the range; right of it
ExtendsLeft(l, range) == \E i \in 1..Len(l.fragments) : ColStart(l, i) < range.start
ExtendsRight(l, range) == \E i \in 1..Len(l.fragments) : ColEnd(l, i) > range.end

\* l has a fragment that lies across the left edge of the range; the right edge
CutLeft(l, range) ==
    \E i \in 1..Len(l.fragments) :
        ColStart(l, i) < range.start /\ ColEnd(l, i) > range.start
CutRight(l, range) ==
    \E i \in 1..Len(l.fragments) :
        ColStart(l, i) < range.end /\ ColEnd(l, i) > range.end

KeptAsItWas(a) ==
    /\ \E j \in 1..Len(as_annotations) : as_annotations[j] = a
    /\ SubSeq(Bytes(as_string), a.start_byte_idx + 1, a.end_byte_idx)
          = SubSeq(Bytes(as_last.string), a.start_byte_idx + 1, a.end_byte_idx)

\* C26 as stated: replace(start, end, new) leaves unchanged every annotation
\* that covers text and lies entirely before the replaced range (annotation
\* end <= start, the annotation that ends where the range begins included),
\* and it covers the same text afterwards, whether the text grows or shrinks.
C26_EarlierAnnotationsKept ==
    (as_last.op = "replace" /\ as_last.start <= Min(as_last.end, StrLen(as_last.string))) =>
        \A i \in 1..Len(as_last.annotations) :
            LET a == as_last.annotations[i]
            IN  (a.start_byte_idx < a.end_byte_idx /\ a.end_byte_idx <= as_last.start)
                    => KeptAsItWas(a)

\* C26 amended: the same for every annotation that ends before the replaced
\* range begins (annotation end < start), and for the annotation that ends
\* exactly where the range begins when the new text is not longer than the
\* replaced range.
C26_StrictlyEarlierAnnotationsKept ==
    (as_last.op = "replace" /\ as_last.start <= Min(as_last.end, StrLen(as_last.string))) =>
        \A i \in 1..Len(as_last.annotations) :
            LET a == as_last.annotations[i]
                range_len == Min(as_last.end, StrLen(as_last.string)) - as_last.start
            IN  (/\ a.start_byte_idx < a.end_byte_idx
                 /\ \/ a.end_byte_idx < as_last.start
                    \/ /\ a.end_byte_idx = as_last.start
                       /\ StrLen(as_last.new_string) <= range_len)
                    => KeptAsItWas(a)

\* a replace that changed the length of the text after an annotation that covers
\* text and ends before the range; one with a shorter text right after an
\* annotation that ends where the range begins
C26_Witness ==
    /\ as_last.op = "replace"
    /\ as_last.start <= Min(as_last.end, StrLen(as_last.string))
    /\ StrLen(as_string) # StrLen(as_last.string)
    /\ \E i \in 1..Len(as_last.annotations) :
          /\ as_last.annotations[i].start_byte_idx < as_last.annotations[i].end_byte_idx
          /\ as_last.annotations[i].end_byte_idx < as_last.start

C26_WitnessAdjacent ==
    /\ as_last.op = "replace"
    /\ StrLen(as_string) < StrLen(as_last.string)
    /\ \E i \in 1..Len(as_last.annotations) :
          /\ as_last.annotations[i].start_byte_idx < as_last.annotations[i].end_byte_idx
          /\ as_last.annotations[i].end_byte_idx = as_last.start

\* C27: after replace(start, end, new) no surviving annotation has its start
\* or its end strictly between start and start + len(new), inside the inserted
\* text; and no annotation of the AnnotatedString returned by
\* get_annotated_visible_substr has its start or its end inside the bytes of a
\* character, so that iterating it cuts no inserted marker.
C27_NoAnnotationInsideInserted ==
    /\ (as_last.op = "replace"
            /\ as_last.start <= Min(as_last.end, StrLen(as_last.string))) =>
          \A j \in 1..Len(as_annotations), f \in Positions :
              ~(/\ as_last.start < as_annotations[j][f]
                /\ as_annotations[j][f] < as_last.start + StrLen(as_last.new_string))
    /\ line_last.op = "get_annotated_visible_substr" =>
          \A j \in 1..Len(line_last.result.annotations), f \in Positions :
              \/ is_char_boundary(line_last.result.string,
                                  line_last.result.annotations[j][f])
              \/ line_last.result.annotations[j][f] > StrLen(line_last.result.string)

(***************************************************************************)
(* Properties of Editor                                                    *)
(***************************************************************************)
\* C16: a Quit processed in normal mode on an unmodified document sets
\* should_quit; on a modified document should_quit is set only by the third
\* Quit in a row (no edit, move, save, search or dismiss command between
\* them), the first two only count; any such other command processed in
\* normal mode puts the counter back to 0; quit_times stays below QUIT_TIMES.
C16_QuitProtection ==
    /\ quit_times < QUIT_TIMES
    /\ should_quit => (ed_last.op = "Quit" /\ ed_last.mode = "None")
    /\ (ed_last.op = "Quit" /\ ed_last.mode = "None") =>
          IF ~ed_last.was_modified THEN should_quit
          ELSE /\ should_quit <=> ed_run = QUIT_TIMES
               /\ ~should_quit => quit_times = ed_run
    /\ (ed_last.op \in {"Edit", "Move", "Save", "Search", "Dismiss"}
            /\ ed_last.mode = "None") => quit_times = 0

\* the third Quit in a row on a modified document, a resize between them
C16_Witness ==
    /\ should_quit
    /\ ed_last.was_modified
    /\ ed_run = QUIT_TIMES
    /\ quit_times = QUIT_TIMES - 1
    /\ terminal_size.height = 8
    /\ lines # <<>>

(***************************************************************************)
(* The View under the commands of the Editor, and the screen.              *)
(***************************************************************************)
\* C24: when Dismiss is processed in search mode, the cursor and the scroll
\* offset afterwards are the ones View::enter_search stored when the search
\* was entered, the search state is cleared and the prompt mode is None
C24_DismissRestores ==
    [][(view_dismiss /\ prompt_type = "Search" /\ search_info # None) =>
          /\ text_location' = search_info[1].prev_location
          /\ scroll_offset' = search_info[1].prev_scroll_offset
          /\ search_info' = None
          /\ prompt_type' = "None"]_vars

\* C25: the caret refresh_screen positions is on the terminal: its column is
\* at most the width and its row at most the height
C25_CaretOnScreen ==
    screen # None =>
       /\ screen[1].caret.col <= screen[1].size.width
       /\ screen[1].caret.row <= screen[1].size.height

C28_WitnessSearch ==
    /\ prompt_type = "Search"
    /\ search_info[1].query # None
    /\ text_location # search_info[1].prev_location

\* C29: in normal mode InsertNewline and then DeleteBackward give back the
\* line texts and the cursor, at every cursor position
C29_NewlineThenBackspace ==
    (prompt_type = "None" /\ Running) =>
       LET size == ViewSize(terminal_size)
           before == ViewOf(lines, text_location, dirty, scroll_offset)
           broken == View_handle_edit_command(before, "InsertNewline", "ispace", size)
           after == View_handle_edit_command(broken, "DeleteBackward", "ispace", size)
       IN  /\ Texts(after.lines) = Texts(lines)
           /\ after.text_location = text_location

\* C30: every row of the View that shows a line shows it with annotations the
\* Highlighter computed in the same draw
C30_RenderedLinesAnnotated ==
    (screen # None /\ screen[1].view # None) =>
       \A current_row \in DOMAIN screen[1].view[1].rows :
          screen[1].view[1].rows[current_row].annotated

====
